---- MODULE Spec2Model ----
(***************************************************************************)
(* Model of the stock ingestion / cache / filter core of rickdynasty/IFM.   *)
(*                                                                         *)
(* Text is modelled as sequences of one-character strings, so that the     *)
(* identifier normaliser and the numeric parser are computed as the code   *)
(* computes them.  Chinese identifiers of the source are written in pinyin *)
(* (the original is given in the comment next to each of them).            *)
(***************************************************************************)
EXTENDS Integers, Sequences, FiniteSets, TLC

(***************************************************************************)
(* Bounds of the model                                                     *)
(***************************************************************************)
MaxDay == 1        \* calendar days that may pass after the initial day
MaxOps == 2        \* operations issued on one StockDataManager instance

(***************************************************************************)
(* Python dict helpers (a dict is a function with a finite domain)         *)
(***************************************************************************)
EmptyDict == [x \in {} |-> <<>>]
Has(d, k) == k \in DOMAIN d
Get(d, k, default) == IF k \in DOMAIN d THEN d[k] ELSE default
Put(d, k, v) == [x \in (DOMAIN d) \cup {k} |-> IF x = k THEN v ELSE d[x]]
Del(d, k) == [x \in (DOMAIN d) \ {k} |-> d[x]]
\* the dict with the given set of <<key, value>> items
RECURSIVE Table(_)
Table(items) ==
  IF items = {} THEN [x \in {} |-> <<>>]
  ELSE LET item == CHOOSE item \in items : TRUE
       IN  (item[1] :> item[2]) @@ Table(items \ {item})
Range(s) == {s[i] : i \in DOMAIN s}

\* Optional[float]
None == [some |-> FALSE, v |-> 0]
Some(n) == [some |-> TRUE, v |-> n]

(***************************************************************************)
(* Python str helpers on character sequences                               *)
(***************************************************************************)
Digit == {"0", "1", "2", "3", "4", "5", "6", "7", "8", "9"}
IsDigit(ch) == ch \in Digit
DigitVal(ch) ==
  CASE ch = "0" -> 0 [] ch = "1" -> 1 [] ch = "2" -> 2 [] ch = "3" -> 3
    [] ch = "4" -> 4 [] ch = "5" -> 5 [] ch = "6" -> 6 [] ch = "7" -> 7
    [] ch = "8" -> 8 [] OTHER -> 9

\* ch in s
Contains(s, ch) == \E i \in DOMAIN s : s[i] = ch
\* s.replace(ch, "")
Remove(s, ch) == SelectSeq(s, LAMBDA c : c # ch)
\* s.find(ch) + 1  (0 when absent)
IndexOf(s, ch) ==
  IF Contains(s, ch) THEN CHOOSE i \in DOMAIN s : s[i] = ch /\ \A j \in 1..(i - 1) : s[j] # ch
  ELSE 0

RECURSIVE lstrip(_)
lstrip(s) == IF s # <<>> /\ Head(s) = " " THEN lstrip(Tail(s)) ELSE s
RECURSIVE rstrip(_)
rstrip(s) == IF s # <<>> /\ s[Len(s)] = " " THEN rstrip(SubSeq(s, 1, Len(s) - 1)) ELSE s
\* s.strip()
strip(s) == rstrip(lstrip(s))

\* s.split(sep)
RECURSIVE split(_, _)
split(s, sep) ==
  LET i == IndexOf(s, sep)
  IN  IF i = 0 THEN <<s>>
      ELSE <<SubSeq(s, 1, i - 1)>> \o split(SubSeq(s, i + 1, Len(s)), sep)

\* s.split(sep, 1)
split1(s, sep) ==
  LET i == IndexOf(s, sep)
  IN  IF i = 0 THEN <<s>> ELSE <<SubSeq(s, 1, i - 1), SubSeq(s, i + 1, Len(s))>>

\* re.sub(r'^(SH|SZ)', '', s)
sub_exchange_prefix(s) ==
  IF Len(s) >= 2 /\ s[1] = "S" /\ s[2] \in {"H", "Z"} THEN SubSeq(s, 3, Len(s)) ELSE s

\* re.sub(r'\D', '', s)
sub_non_digits(s) == SelectSeq(s, IsDigit)

\* s.isdigit()
isdigit(s) == s # <<>> /\ \A i \in DOMAIN s : IsDigit(s[i])

\* s.zfill(width)
RECURSIVE zfill(_, _)
zfill(s, width) == IF Len(s) >= width THEN s ELSE zfill(<<"0">> \o s, width)

RECURSIVE DecVal(_)
DecVal(s) == IF s = <<>> THEN 0 ELSE 10 * DecVal(SubSeq(s, 1, Len(s) - 1)) + DigitVal(s[Len(s)])

\* float(s): surrounding whitespace is accepted; the model's numerals are
\* unsigned decimal integers, every other text raises ValueError (None here)
float(s) == IF isdigit(strip(s)) THEN Some(DecVal(strip(s))) ELSE None

(***************************************************************************)
(* Cells of a parsed delimited file (a pandas DataFrame)                   *)
(*   t = "nan": missing cell;  t = "str": text cell;                       *)
(*   t = "num": numeric cell, s being its str() image                      *)
(***************************************************************************)
NaN == [s |-> <<"n", "a", "n">>, t |-> "nan"]
Str(s) == [s |-> s, t |-> "str"]
Num(s) == [s |-> s, t |-> "num"]
notna(cell) == cell.t # "nan"
str(cell) == cell.s
\* Python truth value of a raw cell
truthy(cell) ==
  CASE cell.t = "str" -> cell.s # <<>>
    [] cell.t = "num" -> DecVal(cell.s) # 0
    [] OTHER -> TRUE

CODE_WIDTH == 6

\* clean_code without the padding to CODE_WIDTH
clean_code_unpadded(cell) ==
  IF ~truthy(cell) \/ ~notna(cell) THEN <<>>
  ELSE
    LET cleaned(code_str) ==
          sub_non_digits(
            IF Contains(code_str, ".")
              THEN sub_exchange_prefix(split(code_str, ".")[1])
            ELSE IF Contains(code_str, ",")
              THEN LET parts == split(code_str, ",")
                   IN  IF Len(parts) > 1 THEN sub_exchange_prefix(strip(parts[2]))
                       ELSE code_str
            ELSE code_str)
    IN  cleaned(strip(Remove(str(cell), "'")))

\* BaseData.clean_code
clean_code(cell) ==
  IF ~truthy(cell) \/ ~notna(cell) THEN <<>>
  ELSE
    LET padded(digits) == IF digits # <<>> THEN zfill(digits, CODE_WIDTH) ELSE <<>>
        cleaned(code_str) ==
          padded(sub_non_digits(
            IF Contains(code_str, ".")
              THEN sub_exchange_prefix(split(code_str, ".")[1])
            ELSE IF Contains(code_str, ",")
              THEN LET parts == split(code_str, ",")
                   IN  IF Len(parts) > 1 THEN sub_exchange_prefix(strip(parts[2]))
                       ELSE code_str
            ELSE code_str))
    IN  cleaned(strip(Remove(str(cell), "'")))

\* BaseData.safe_get_numeric, on the str values the registry holds
\* ("Y" stands for the unit character 亿)
safe_get_numeric(value) ==
  IF value = <<>> \/ value = <<"-">> THEN None
  ELSE
    LET number(value_str) ==
          IF Contains(value_str, "%") THEN float(Remove(value_str, "%"))
          ELSE IF Contains(value_str, "Y") THEN float(Remove(value_str, "Y"))
          ELSE float(value_str)
    IN  number(strip(Remove(value, "'")))

(***************************************************************************)
(* Column, metric and category names (pinyin for the source's Chinese)     *)
(*   daima 代码, gupiaodaima 股票代码, gupiao 股票, xu 序,                  *)
(*   mingcheng 名称, gupiaomingcheng 股票名称,                              *)
(*   hangye 行业, suoshuhangye 所属行业, shenwanhangye 申万行业,            *)
(*   hangyefenlei 行业分类, dangqianROE 当前ROE, pingjunROE 平均ROE,        *)
(*   koufeiPE 扣非PE, PE.koufei PE.扣非, guxi 股息, guxilv 股息率,          *)
(*   zuixinguxi 最新股息, pingjunguxi 平均股息, jinnianlai 今年来,          *)
(*   jinnianzhangfu 今年涨幅, nianchuzhijin 年初至今,                       *)
(*   beishangchigu 北上持股, chigubi 持股比, chiyoushizhi 持有市值,         *)
(*   beishangzijinchigu 北上资金持股, ROEpaiming ROE排名,                   *)
(*   ROElianxuchao15 ROE连续超15%, guxilvpaiming 股息率排名,               *)
(*   lianxu3nian 连续3年, lianxu5nian 连续5年, jin2nian 近2年, ...          *)
(*   shi 是, fou 否                                                        *)
(***************************************************************************)
NoSub == ""          \* sub_type None
NoColumn == ""       \* a column lookup that found nothing (None)

\* first element of the candidate list that is a column of df, else None
first_present(candidates, df) ==
  IF \E i \in DOMAIN candidates : candidates[i] \in Range(df.columns)
    THEN candidates[CHOOSE i \in DOMAIN candidates :
                      /\ candidates[i] \in Range(df.columns)
                      /\ \A j \in 1..(i - 1) : candidates[j] \notin Range(df.columns)]
  ELSE NoColumn

\* StockDataFactory.STOCK_DATA_TYPES, the categories the model carries.
\* file = "" / file_pattern = <<>> / sub_types = <<>> : key absent or None.
\* file_pattern <<a, b>> is the template a{}b; sub_types and extra_columns
\* are ordered, as the dicts of the source are.
STOCK_DATA_TYPES ==
  [ beishangzijinchigu |->
      [ file |-> "The_highest_proportion_of_northbound_funds_held.csv",
        file_pattern |-> <<>>, sub_types |-> <<>>, date_dependent |-> TRUE,
        extra_columns |-> << <<"chigubi", "chigubi">>,
                             <<"chiyoushizhi", "chiyoushizhi.yi">>,
                             <<"PE", "PE">> >> ],
    ROEpaiming |->
      [ file |-> "Highest_ROE_ranking.csv",
        file_pattern |-> <<>>, sub_types |-> <<>>, date_dependent |-> TRUE,
        extra_columns |-> << <<"dangqianROE", "ROE">>,
                             <<"PE.koufei", "koufeiPE">>,
                             <<"PB", "PB">> >> ],
    ROElianxuchao15 |->
      [ file |-> "",
        file_pattern |-> <<"ROE_exceeded_15p_", "_consecutive_years.csv">>,
        sub_types |-> << <<"lianxu3nian", "three">>, <<"lianxu5nian", "five">> >>,
        date_dependent |-> TRUE,
        extra_columns |-> << <<"dangqianROE", "dangqianROE">>,
                             <<"pingjunROE", "pingjunROE">>,
                             <<"PE.koufei", "koufeiPE">>,
                             <<"beishangchigu", "beishangchigu">> >> ],
    guxilvpaiming |->
      [ file |-> "",
        file_pattern |-> <<"Highest_dividend_yield_in_the_past_", ".csv">>,
        sub_types |-> << <<"jin2nian", "two_years">>, <<"jin3nian", "three_years">>,
                         <<"jin5nian", "five_years">> >>,
        date_dependent |-> TRUE,
        extra_columns |-> << <<"guxilv", "zuixinguxi">>,
                             <<"pingjunguxi", "pingjunguxi">>,
                             <<"PE.koufei", "koufeiPE">>,
                             <<"PB", "PB">>,
                             <<"dangqianROE", "ROE">> >> ] ]

\* lookup in an ordered dict given as a sequence of <<key, value>> pairs
Keys(od) == {od[i][1] : i \in DOMAIN od}
Lookup(od, k) == od[CHOOSE i \in DOMAIN od : od[i][1] = k][2]

(***************************************************************************)
(* The file system: paths are [dir, name], dir a sequence of components.   *)
(* A data file is absent, or parses to a DataFrame [columns, rows]; a file *)
(* with no data row (or an unreadable one) gives an empty DataFrame.       *)
(***************************************************************************)
NoPath == [dir |-> <<>>, name |-> ""]
join(dir, name) == [dir |-> dir, name |-> name]
dirname(dir) == IF dir = <<>> THEN <<>> ELSE SubSeq(dir, 1, Len(dir) - 1)
EmptyFrame == [columns |-> <<>>, rows |-> <<>>]
exists(fs, path) == path \in DOMAIN fs
\* BaseData._read_csv_file
read_csv_file(fs, path) == IF exists(fs, path) THEN fs[path] ELSE EmptyFrame
df_empty(df) == df.rows = <<>>

(***************************************************************************)
(* StockData (modules/stock_data/stock_data.py)                            *)
(***************************************************************************)
\* StockData._determine_file_path; also yields the defaulted sub_type
determine_file_path(data_dir, sub_type, config, date_dependent) ==
  IF config.sub_types = <<>>
    THEN [ sub_type |-> sub_type,
           path |-> IF date_dependent /\ config.file # ""
                      THEN join(data_dir, config.file)
                    ELSE IF ~date_dependent /\ config.file # ""
                      THEN join(dirname(dirname(data_dir)), config.file)
                    ELSE NoPath ]
  ELSE
    LET st == IF sub_type = NoSub THEN config.sub_types[1][1] ELSE sub_type
    IN  [ sub_type |-> st,
          path |-> IF st \in Keys(config.sub_types) /\ config.file_pattern # <<>>
                     THEN LET fname == config.file_pattern[1] \o Lookup(config.sub_types, st)
                                         \o config.file_pattern[2]
                          IN  IF ~date_dependent
                                THEN join(dirname(dirname(data_dir)), fname)
                              ELSE join(data_dir, fname)
                   ELSE NoPath ]

\* StockData.__init__
StockData(data_dir, stock_type, sub_type, config, date_dependent) ==
  LET r == determine_file_path(data_dir, sub_type, config, date_dependent)
  IN  [ stock_type |-> stock_type, sub_type |-> r.sub_type,
        file_path |-> r.path, stock_codes |-> {}, stock_info |-> EmptyDict,
        extra_data |-> EmptyDict, is_loaded |-> FALSE ]

\* StockData._find_code_column
find_code_column(df) ==
  LET c == first_present(<<"daima", "gupiaodaima", "code", "stock_code", "gupiao", "xu">>, df)
  IN  IF c # NoColumn THEN c
      ELSE IF ~df_empty(df) THEN df.columns[1]
      ELSE NoColumn

\* the codes of every row of the code column but the last
extract_stock_codes_but_last(df, code_column) ==
  {clean_code(df.rows[i][code_column]) : i \in 1..(Len(df.rows) - 1)} \ {<<>>}

\* StockData._extract_stock_codes
StockData_extract_stock_codes(df, code_column) ==
  {clean_code(df.rows[i][code_column]) : i \in DOMAIN df.rows} \ {<<>>}

\* not d.get(k)
Unset(d, k) == Get(d, k, <<>>) = <<>>

\* the financial_columns mapping of _extract_stock_info: <<std_col, candidates>>
financial_columns ==
  << <<"dangqianROE", <<"dangqianROE", "ROE", "roe">> >>,
     <<"koufeiPE", <<"koufeiPE", "koufeipe", "PE", "pe">> >>,
     <<"PB", <<"PB", "pb">> >>,
     <<"guxilv", <<"guxi", "guxilv", "guxi%", "zuixinguxi">> >>,
     <<"jinnianlai", <<"jinnianlai", "jinnianzhangfu", "nianchuzhijin">> >> >>

\* column_mapping of _extract_stock_info, as a set of <<orig_col, std_col>>
column_mapping(df) ==
  { <<first_present(financial_columns[i][2], df), financial_columns[i][1]>> :
      i \in {j \in DOMAIN financial_columns :
               first_present(financial_columns[j][2], df) # NoColumn} }

\* the body of the row loop of StockData._extract_stock_info
extract_stock_info_row(stock_info, df, row, code_column) ==
  LET name_column == first_present(<<"mingcheng", "gupiaomingcheng", "gupiao">>, df)
      industry_column ==
        first_present(<<"hangye", "suoshuhangye", "shenwanhangye", "hangyefenlei">>, df)
      \* the financial columns of column_mapping, entered into entry e
      with_financials(code, e) ==
        LET fresh == {m \in column_mapping(df) : notna(row[m[1]]) /\ Unset(e, m[2])}
        IN  Put(stock_info, code,
                [k \in (DOMAIN e) \cup {m[2] : m \in fresh} |->
                   IF \E m \in fresh : m[2] = k
                     THEN strip(str(row[(CHOOSE m \in fresh : m[2] = k)[1]]))
                   ELSE e[k]])
      \* the industry, then the financial columns
      with_industry(code, e) ==
        with_financials(code,
          IF industry_column # NoColumn /\ notna(row[industry_column]) /\ Unset(e, "hangye")
            THEN Put(e, "hangye", strip(str(row[industry_column])))
          ELSE e)
      \* the name, then the rest
      with_name(code, e) ==
        with_industry(code,
          IF name_column # NoColumn /\ notna(row[name_column])
            THEN IF Contains(str(row[code_column]), ".")
                   THEN LET name == strip(split(str(row[code_column]), ".")[2])
                        IN  IF name # <<>> /\ Unset(e, "mingcheng")
                              THEN Put(e, "mingcheng", name) ELSE e
                 ELSE IF Unset(e, "mingcheng")
                   THEN Put(e, "mingcheng", strip(str(row[name_column])))
                 ELSE e
          ELSE e)
      entered(code) ==
        IF code = <<>> THEN stock_info
        ELSE with_name(code, Get(stock_info, code, EmptyDict))
  IN  entered(clean_code(row[code_column]))

\* StockData._extract_stock_info: rows are taken in file order
RECURSIVE extract_stock_info_rows(_, _, _, _)
extract_stock_info_rows(stock_info, df, rows, code_column) ==
  IF rows = <<>> THEN stock_info
  ELSE extract_stock_info_rows(extract_stock_info_row(stock_info, df, Head(rows), code_column),
                               df, Tail(rows), code_column)

extract_stock_info(df, code_column) ==
  extract_stock_info_rows(EmptyDict, df, df.rows, code_column)

\* the row loop shared by the extra-data extractors: the cell of
\* source_column, stripped, per cleaned code; a later row overwrites
RECURSIVE copy_column(_, _, _, _)
copy_column(acc, rows, code_column, source_column) ==
  IF rows = <<>> THEN acc
  ELSE LET row == Head(rows)
           copied(code) ==
             IF code # <<>> /\ notna(row[source_column])
               THEN Put(acc, code, strip(str(row[source_column])))
             ELSE acc
       IN  copy_column(copied(clean_code(row[code_column])),
                       Tail(rows), code_column, source_column)

\* codes of stock_codes that have key in stock_info, with that value
from_stock_info(self, key) ==
  [code \in {c \in self.stock_codes :
               Has(self.stock_info, c) /\ Has(self.stock_info[c], key)} |->
     self.stock_info[code][key]]

\* StockData._extract_roe_data
extract_roe_data(self, df, code_column) ==
  LET found_column ==
        first_present(<<"ROE", "roe", "pingjunROE", "pingjunroe", "ROE(%)", "roe(%)",
                        "pingjunROE(%)", "pingjunroe(%)">>, df)
  IN  IF found_column # NoColumn
        THEN copy_column(EmptyDict, df.rows, code_column, found_column)
      ELSE from_stock_info(self, "dangqianROE")

\* StockData._extract_northbound_data
extract_northbound_data(self, df, code_column) ==
  IF "beishangchigu" \in Range(df.columns)
    THEN copy_column(EmptyDict, df.rows, code_column, "beishangchigu")
  ELSE [code \in self.stock_codes |-> <<"f", "o", "u">>]

\* StockData._extract_dividend_data
extract_dividend_data(self, df, code_column) ==
  LET found_column ==
        first_present(<<"guxi", "guxilv", "zuixinguxi", "guxi%", "guxi(%)", "guxilv(%)">>, df)
  IN  IF found_column # NoColumn
        THEN copy_column(EmptyDict, df.rows, code_column, found_column)
      ELSE from_stock_info(self, "guxi")

\* StockData._extract_extra_data: one entry per declared display name
extract_extra_data(self, config, df, code_column) ==
  LET ec == config.extra_columns
  IN  [display_name \in Keys(ec) |->
         LET source_column == Lookup(ec, display_name)
         IN  IF self.stock_type = "ROElianxuchao15" /\ display_name = "pingjunROE"
               THEN extract_roe_data(self, df, code_column)
             ELSE IF self.stock_type = "ROElianxuchao15" /\ display_name = "beishangchigu"
               THEN extract_northbound_data(self, df, code_column)
             ELSE IF display_name = "guxilv"
               THEN extract_dividend_data(self, df, code_column)
             ELSE IF source_column \in Range(df.columns)
               THEN copy_column(EmptyDict, df.rows, code_column, source_column)
             ELSE EmptyDict]

\* StockData.load: the object after the call (is_loaded is the return value);
\* config is self.config
load(self, config, fs) ==
  IF self.file_path = NoPath \/ ~exists(fs, self.file_path) THEN self
  ELSE
    LET \* the three extractions, in order, on the parsed file
        extracted(df, code_column) ==
          LET with_info(s2) ==
                [s2 EXCEPT !.extra_data = extract_extra_data(s2, config, df, code_column),
                           !.is_loaded = TRUE]
          IN  with_info([self EXCEPT
                           !.stock_codes = StockData_extract_stock_codes(df, code_column),
                           !.stock_info = extract_stock_info(df, code_column)])
        parsed(df, code_column) ==
          IF df_empty(df) \/ code_column = NoColumn THEN self
          ELSE extracted(df, code_column)
        read(df) == parsed(df, find_code_column(df))
    IN  read(read_csv_file(fs, self.file_path))

\* StockData.get_data(key)
get_data(self, key) ==
  IF ~self.is_loaded THEN EmptyDict
  ELSE IF key = "stock_info" THEN self.stock_info
  ELSE IF key = "extra_data" THEN self.extra_data
  ELSE EmptyDict

(***************************************************************************)
(* The data directory.  Worlds[w] is the content of data/stock as upstream *)
(* published it the w-th time; codes are 000001..000004, names and         *)
(* industries single letters.                                              *)
(***************************************************************************)
DATA_DIR == <<"data", "stock">>
NoDate == ""
SELECTED_DATE == "2025.08"
\* the selected_date values the callers pass
Dates == {SELECTED_DATE}
DateDir == Append(DATA_DIR, SELECTED_DATE)

Row2(c1, v1, c2, v2) == (c1 :> v1) @@ (c2 :> v2)
Row3(c1, v1, c2, v2, c3, v3) == (c1 :> v1) @@ (c2 :> v2) @@ (c3 :> v3)
Row4(c1, v1, c2, v2, c3, v3, c4, v4) == (c1 :> v1) @@ (c2 :> v2) @@ (c3 :> v3) @@ (c4 :> v4)
Row5(c1, v1, c2, v2, c3, v3, c4, v4, c5, v5) ==
  (c1 :> v1) @@ (c2 :> v2) @@ (c3 :> v3) @@ (c4 :> v4) @@ (c5 :> v5)

\* 北上资金持股: codes 1, 2; code 2 has no industry
NorthboundFile ==
  [columns |-> <<"gupiao", "hangye", "chigubi">>,
   rows |-> << Row3("gupiao", Str(<<"S", "H", "1", ".", "A">>), "hangye", Str(<<"K">>),
                    "chigubi", Num(<<"5">>)),
               Row3("gupiao", Str(<<"S", "Z", "2", ".", "B">>), "hangye", NaN,
                    "chigubi", Num(<<"7">>)) >>]

\* 北上资金持股 as republished: codes 1, 3
NorthboundFile2 ==
  [columns |-> <<"gupiao", "hangye", "chigubi">>,
   rows |-> << Row3("gupiao", Str(<<"S", "H", "1", ".", "A">>), "hangye", Str(<<"K">>),
                    "chigubi", Num(<<"6">>)),
               Row3("gupiao", Str(<<"S", "Z", "3", ".", "C">>), "hangye", Str(<<"M">>),
                    "chigubi", Num(<<"7">>)) >>]

\* ROE排名: codes 2, 3; numeric code column, names in their own column
ROERankingFile ==
  [columns |-> <<"daima", "mingcheng", "hangye", "ROE", "PB">>,
   rows |-> << Row5("daima", Num(<<"2">>), "mingcheng", Str(<<"b">>), "hangye", Str(<<"M">>),
                    "ROE", Num(<<"2", "0">>), "PB", Num(<<"3">>)),
               Row5("daima", Num(<<"3">>), "mingcheng", Str(<<"C">>), "hangye", Str(<<"K">>),
                    "ROE", Str(<<"1", "2", "%">>), "PB", NaN) >>]

\* ROE连续超15% 连续3年: codes 1, 2, 3; average ROE absent / 10 / unparseable
ROEThreeFile ==
  [columns |-> <<"gupiao", "dangqianROE", "pingjunROE">>,
   rows |-> << Row3("gupiao", Str(<<"S", "H", "1", ".", "a">>),
                    "dangqianROE", Str(<<"1", "6">>), "pingjunROE", NaN),
               Row3("gupiao", Str(<<"2", ".", "B">>),
                    "dangqianROE", Str(<<"2", "0">>), "pingjunROE", Str(<<"1", "0">>)),
               Row3("gupiao", Str(<<"S", "Z", "3", ".", "C">>),
                    "dangqianROE", Str(<<"1", "6", "%">>), "pingjunROE", Str(<<"-">>)) >>]

\* ROE连续超15% 连续5年: code 1
ROEFiveFile ==
  [columns |-> <<"gupiao", "ROE", "dangqianROE">>,
   rows |-> << Row3("gupiao", Str(<<"S", "H", "1", ".", "A">>),
                    "ROE", Num(<<"3", "0">>), "dangqianROE", Num(<<"9">>)) >>]

\* ROE连续超15% 连续5年 as republished: codes 1, 3; no ROE column but the
\* current one, which code 3 has no value in
ROEFiveFile2 ==
  [columns |-> <<"gupiao", "dangqianROE">>,
   rows |-> << Row2("gupiao", Str(<<"S", "H", "1", ".", "A">>), "dangqianROE", Num(<<"1", "8">>)),
               Row2("gupiao", Str(<<"S", "Z", "3", ".", "C">>), "dangqianROE", NaN) >>]

\* 股息率排名 近2年: one row whose code cell holds no digit
DividendTwoFile ==
  [columns |-> <<"daima", "zuixinguxi">>,
   rows |-> << Row2("daima", Str(<<"-">>), "zuixinguxi", Num(<<"4">>)) >>]

\* 股息率排名 近3年: codes 3, 4; average dividend absent / 2
DividendThreeFile ==
  [columns |-> <<"daima", "mingcheng", "zuixinguxi", "pingjunguxi">>,
   rows |-> << Row4("daima", Str(<<"'", "3">>), "mingcheng", Str(<<"C">>),
                    "zuixinguxi", Num(<<"5">>), "pingjunguxi", NaN),
               Row4("daima", Str(<<"'", "4">>), "mingcheng", Str(<<"D">>),
                    "zuixinguxi", Num(<<"5">>), "pingjunguxi", Num(<<"2">>)) >>]

\* 股息率排名 近5年: a header line and no data row
DividendFiveFile ==
  [columns |-> <<"daima", "zuixinguxi">>, rows |-> <<>>]

World1 ==
  (join(DateDir, "The_highest_proportion_of_northbound_funds_held.csv") :> NorthboundFile)
  @@ (join(DateDir, "Highest_ROE_ranking.csv") :> ROERankingFile)
  @@ (join(DateDir, "ROE_exceeded_15p_three_consecutive_years.csv") :> ROEThreeFile)
  @@ (join(DateDir, "ROE_exceeded_15p_five_consecutive_years.csv") :> ROEFiveFile)
  @@ (join(DateDir, "Highest_dividend_yield_in_the_past_two_years.csv") :> DividendTwoFile)
  @@ (join(DateDir, "Highest_dividend_yield_in_the_past_three_years.csv") :> DividendThreeFile)
  @@ (join(DateDir, "Highest_dividend_yield_in_the_past_five_years.csv") :> DividendFiveFile)

\* the republished directory: 北上资金持股 and ROE连续超15% 连续5年 changed,
\* ROE排名 withdrawn
World2 ==
  (join(DateDir, "The_highest_proportion_of_northbound_funds_held.csv") :> NorthboundFile2)
  @@ (join(DateDir, "ROE_exceeded_15p_three_consecutive_years.csv") :> ROEThreeFile)
  @@ (join(DateDir, "ROE_exceeded_15p_five_consecutive_years.csv") :> ROEFiveFile2)
  @@ (join(DateDir, "Highest_dividend_yield_in_the_past_two_years.csv") :> DividendTwoFile)
  @@ (join(DateDir, "Highest_dividend_yield_in_the_past_three_years.csv") :> DividendThreeFile)
  @@ (join(DateDir, "Highest_dividend_yield_in_the_past_five_years.csv") :> DividendFiveFile)

Worlds == <<World1, World2>>

(***************************************************************************)
(* StockDataFactory and StockDataManager                                   *)
(*                                                                         *)
(* The manager's methods are operators on a record st that carries the     *)
(* manager's fields, the cache directory and two history fields:           *)
(*   merged: the datasets handed to _update_all_stock_info, in order;      *)
(*   events: what the current call did ("hit", "remove", "parse",          *)
(*           "write"), each with the instance key.                         *)
(* env carries what the call reads only: world, today, selected_date.      *)
(***************************************************************************)

\* StockDataFactory.get_stock_data; ok = FALSE is the None result
get_stock_data(stock_type, sub_type, data_dir, selected_date) ==
  IF stock_type \notin DOMAIN STOCK_DATA_TYPES
    THEN [ok |-> FALSE, obj |-> EmptyDict]
  ELSE
    LET config == STOCK_DATA_TYPES[stock_type]
        full_data_dir == IF selected_date # NoDate /\ config.date_dependent
                           THEN Append(data_dir, selected_date) ELSE data_dir
    IN  [ok |-> TRUE,
         obj |-> StockData(full_data_dir, stock_type, sub_type, config,
                           config.date_dependent)]

\* f"{stock_type}_{sub_type}" if sub_type else stock_type
instance_key_of(stock_type, sub_type) ==
  IF sub_type # NoSub THEN <<stock_type, sub_type>> ELSE <<stock_type>>

\* StockDataManager._get_cache_file_path
get_cache_file_path(selected_date, instance_key) ==
  [key |-> instance_key,
   date_part |-> IF selected_date # NoDate THEN selected_date ELSE "current"]

Event(e, key) == [e |-> e, key |-> key]

\* an update in which name and industry, too, go to the last writer
merge_info_last_writer(cur, info) ==
  [k \in (DOMAIN cur) \cup {k \in DOMAIN info : info[k] # <<>>} |->
     IF k \in DOMAIN info /\ info[k] # <<>> THEN info[k] ELSE cur[k]]

\* the update of one registry entry by one stock_info entry
merge_info(cur, info) ==
  LET c1 == IF Has(info, "mingcheng") /\ info["mingcheng"] # <<>> /\ Unset(cur, "mingcheng")
              THEN Put(cur, "mingcheng", info["mingcheng"]) ELSE cur
      c2 == IF Has(info, "hangye") /\ info["hangye"] # <<>> /\ Unset(c1, "hangye")
              THEN Put(c1, "hangye", info["hangye"]) ELSE c1
      metrics == {k \in DOMAIN info : k \notin {"mingcheng", "hangye"} /\ info[k] # <<>>}
  IN  [k \in (DOMAIN c2) \cup metrics |-> IF k \in metrics THEN info[k] ELSE c2[k]]

\* StockDataManager._update_all_stock_info
update_all_stock_info(all_stock_info, stock_data) ==
  LET stock_info == get_data(stock_data, "stock_info")
      extra_data == get_data(stock_data, "extra_data")
      supplied(code) == {d \in DOMAIN extra_data :
                           Has(extra_data[d], code) /\ extra_data[d][code] # <<>>}
      \* the second loop, over extra_data, on the registry a1 of the first
      with_extra_data(a1) ==
        [code \in DOMAIN a1 |->
           [k \in (DOMAIN a1[code]) \cup supplied(code) |->
              IF k \in supplied(code) THEN extra_data[k][code] ELSE a1[code][k]]]
  IN  IF stock_info = EmptyDict THEN all_stock_info
      ELSE with_extra_data(
             [code \in (DOMAIN all_stock_info) \cup (DOMAIN stock_info) |->
                IF code \in DOMAIN stock_info
                  THEN merge_info(Get(all_stock_info, code, EmptyDict), stock_info[code])
                ELSE all_stock_info[code]])

\* the in-memory update shared by load_stock_data and _load_from_cache
install(st, instance_key, stock_type, stock_data) ==
  [st EXCEPT !.stock_data_instances = Put(@, instance_key, stock_data),
             !.filtered_codes = Put(@, instance_key, stock_data.stock_codes),
             !.all_stock_info = update_all_stock_info(@, stock_data),
             !.loaded_types = @ \cup {stock_type},
             !.merged = Append(@, instance_key)]

\* a cache read that takes an artifact of any day
load_from_cache_any_day(st, env, instance_key) ==
  LET cache_file == get_cache_file_path(env.selected_date, instance_key)
  IN  IF cache_file \in DOMAIN st.cache
        THEN IF st.cache[cache_file].corrupt
               THEN [ret |-> FALSE,
                     st |-> [st EXCEPT !.cache = Del(@, cache_file),
                                       !.events = Append(@, Event("remove", instance_key))]]
             ELSE [ret |-> TRUE,
                   st |-> [install(st, instance_key, instance_key[1],
                                   st.cache[cache_file].data)
                             EXCEPT !.events = Append(@, Event("hit", instance_key))]]
      ELSE [ret |-> FALSE, st |-> st]

\* a cache read that leaves an artifact it cannot deserialize where it is
load_from_cache_keep_corrupt(st, env, instance_key) ==
  LET cache_file == get_cache_file_path(env.selected_date, instance_key)
  IN  IF cache_file \in DOMAIN st.cache
        THEN IF st.cache[cache_file].mtime # env.today \/ st.cache[cache_file].corrupt
               THEN [ret |-> FALSE, st |-> st]
             ELSE [ret |-> TRUE,
                   st |-> [install(st, instance_key, instance_key[1],
                                   st.cache[cache_file].data)
                             EXCEPT !.events = Append(@, Event("hit", instance_key))]]
      ELSE [ret |-> FALSE, st |-> st]

\* a cache read that puts the dataset in place and leaves the registry alone
load_from_cache_without_registry(st, env, instance_key) ==
  LET cache_file == get_cache_file_path(env.selected_date, instance_key)
  IN  IF cache_file \in DOMAIN st.cache
           /\ st.cache[cache_file].mtime = env.today /\ ~st.cache[cache_file].corrupt
        THEN [ret |-> TRUE,
              st |-> [st EXCEPT
                        !.stock_data_instances = Put(@, instance_key, st.cache[cache_file].data),
                        !.filtered_codes =
                          Put(@, instance_key, st.cache[cache_file].data.stock_codes),
                        !.loaded_types = @ \cup {instance_key[1]},
                        !.merged = Append(@, instance_key),
                        !.events = Append(@, Event("hit", instance_key))]]
      ELSE [ret |-> FALSE, st |-> st]

\* StockDataManager._load_from_cache.  The artifact may be unreadable
\* (pickle.load raises before anything is assigned) or readable and not a
\* dataset of this version of the class: the object is assigned to
\* stock_data_instances, then cached_data.stock_codes raises.
load_from_cache(st, env, instance_key) ==
  LET cache_file == get_cache_file_path(env.selected_date, instance_key)
  IN  IF cache_file \in DOMAIN st.cache
        THEN IF st.cache[cache_file].mtime # env.today
               THEN [ret |-> FALSE, st |-> st]
             ELSE IF st.cache[cache_file].corrupt
               THEN [ret |-> FALSE,
                     st |-> [st EXCEPT !.cache = Del(@, cache_file),
                                       !.events = Append(@, Event("remove", instance_key))]]
             ELSE IF "stock_codes" \notin DOMAIN st.cache[cache_file].data
               THEN [ret |-> FALSE,
                     st |-> [st EXCEPT
                               !.stock_data_instances =
                                 Put(@, instance_key, st.cache[cache_file].data),
                               !.cache = Del(@, cache_file),
                               !.events = Append(@, Event("remove", instance_key))]]
             ELSE [ret |-> TRUE,
                   st |-> [install(st, instance_key, instance_key[1],
                                   st.cache[cache_file].data)
                             EXCEPT !.events = Append(@, Event("hit", instance_key))]]
      ELSE [ret |-> FALSE, st |-> st]

\* a write-back that writes nothing
save_to_cache_nothing(st, env, instance_key, stock_data) == st

\* StockDataManager._save_to_cache (the write succeeds: the disk is taken to
\* work, so the except clause that swallows a failing write is never entered)
save_to_cache(st, env, instance_key, stock_data) ==
  [st EXCEPT !.cache = Put(@, get_cache_file_path(env.selected_date, instance_key),
                           [mtime |-> env.today, corrupt |-> FALSE, data |-> stock_data]),
             !.events = Append(@, Event("write", instance_key))]

\* sub_type arguments: None, the catalogue's sub-variants, and one the
\* catalogue does not define
SubTypeArgs ==
  {NoSub, "lianxu9nian"}
    \cup UNION {Keys(STOCK_DATA_TYPES[t].sub_types) : t \in DOMAIN STOCK_DATA_TYPES}

\* stock_data.load() of every dataset the factory can create, against each
\* content of the data directory (a function of the files alone)
Loaded ==
  Table({<<w, Table({<<date,
                       Table({<<a, load(get_stock_data(a[1], a[2], DATA_DIR, date).obj,
                                        STOCK_DATA_TYPES[a[1]], Worlds[w])>> :
                                a \in (DOMAIN STOCK_DATA_TYPES) \X SubTypeArgs})>> :
                      date \in Dates})>> :
           w \in DOMAIN Worlds})

\* StockDataManager.load_stock_data
load_stock_data(st, env, stock_type, sub_type) ==
  LET instance_key == instance_key_of(stock_type, sub_type)
      made == get_stock_data(stock_type, sub_type, DATA_DIR, env.selected_date)
      \* after stock_data.load(): stock_data is the object as the call left it
      after_load(parsed, stock_data) ==
        IF stock_data.is_loaded
          THEN [ret |-> TRUE,
                st |-> save_to_cache(install(parsed, instance_key, stock_type, stock_data),
                                     env, instance_key, stock_data)]
        ELSE [ret |-> FALSE, st |-> parsed]
      \* after _load_from_cache
      after_cache(cached) ==
        IF cached.ret THEN cached
        ELSE IF ~made.ok THEN [ret |-> FALSE, st |-> cached.st]
        ELSE after_load([cached.st EXCEPT
                           !.events = Append(@, Event("parse", instance_key))],
                        Loaded[env.world][env.selected_date][<<stock_type, sub_type>>])
  IN  IF Has(st.stock_data_instances, instance_key)
           /\ st.stock_data_instances[instance_key].is_loaded
        THEN [ret |-> TRUE, st |-> st]
      ELSE after_cache(load_from_cache(st, env, instance_key))

\* StockDataManager.__init__: the manager as constructed
NewSelf(cache_dir) ==
  [stock_data_instances |-> EmptyDict, filtered_codes |-> EmptyDict,
   all_stock_info |-> EmptyDict, loaded_types |-> {},
   merged |-> <<>>, cache |-> cache_dir, events |-> <<>>]

\* pd.DataFrame(): a result table is its set of rows, a row a function
\* from column name to value (the engine imposes no row order)
EmptyTable == {}

\* the loading loop of filter_stocks; ok = FALSE is the early return
RECURSIVE load_selected(_, _, _, _)
load_selected(st, env, selected_types, sub_types) ==
  IF selected_types = <<>> THEN [ok |-> TRUE, st |-> st]
  ELSE
    LET stock_type == Head(selected_types)
        sub_type == Get(sub_types, stock_type, NoSub)
        instance_key == instance_key_of(stock_type, sub_type)
        after_load(r) ==
          IF ~r.ret THEN [ok |-> FALSE, st |-> r.st]
          ELSE load_selected(r.st, env, Tail(selected_types), sub_types)
    IN  IF ~Has(st.stock_data_instances, instance_key)
          THEN after_load(load_stock_data(st, env, stock_type, sub_type))
        ELSE load_selected(st, env, Tail(selected_types), sub_types)

\* the multi-type loop of filter_stocks that accumulates result_codes
RECURSIVE intersect_loop(_, _, _)
intersect_loop(result_codes, instance_keys, filtered_codes) ==
  IF instance_keys = <<>> THEN result_codes
  ELSE
    LET instance_key == Head(instance_keys)
    IN  intersect_loop(IF Has(filtered_codes, instance_key)
                         THEN IF result_codes = {} THEN filtered_codes[instance_key]
                              ELSE result_codes \cap filtered_codes[instance_key]
                       ELSE result_codes,
                       Tail(instance_keys), filtered_codes)

\* result_codes of filter_stocks before the threshold filters
common_codes_of(instance_keys, filtered_codes) ==
  IF Len(instance_keys) = 1
    THEN IF Has(filtered_codes, instance_keys[1]) THEN filtered_codes[instance_keys[1]] ELSE {}
  ELSE intersect_loop({}, instance_keys, filtered_codes)

\* a resolution that asks the current ROE before the average ROE
roe_value_current_first(info) ==
  LET third(v2) ==
        IF ~v2.some /\ Has(info, "ROE") THEN safe_get_numeric(info["ROE"]) ELSE v2
      second(v1) ==
        third(IF ~v1.some /\ Has(info, "pingjunROE") THEN safe_get_numeric(info["pingjunROE"]) ELSE v1)
  IN  second(IF Has(info, "dangqianROE") THEN safe_get_numeric(info["dangqianROE"]) ELSE None)

\* the value the ROE filter of filter_stocks resolves for a registry entry
roe_value_of(info) ==
  LET third(v2) ==
        IF ~v2.some /\ Has(info, "ROE") THEN safe_get_numeric(info["ROE"]) ELSE v2
      second(v1) ==
        third(IF ~v1.some /\ Has(info, "dangqianROE") THEN safe_get_numeric(info["dangqianROE"]) ELSE v1)
  IN  second(IF Has(info, "pingjunROE") THEN safe_get_numeric(info["pingjunROE"]) ELSE None)

\* the value the dividend filter of filter_stocks resolves for a registry entry
dividend_value_of(info) ==
  LET third(v2) ==
        IF ~v2.some /\ Has(info, "guxi") THEN safe_get_numeric(info["guxi"]) ELSE v2
      second(v1) ==
        third(IF ~v1.some /\ Has(info, "guxilv") THEN safe_get_numeric(info["guxilv"]) ELSE v1)
  IN  second(IF Has(info, "pingjunguxi") THEN safe_get_numeric(info["pingjunguxi"]) ELSE None)

roe_filtered(result_codes, all_stock_info, roe_filter) ==
  LET passes(roe_value) == roe_value.some /\ roe_value.v >= roe_filter.v
  IN  {code \in result_codes :
         Has(all_stock_info, code) /\ passes(roe_value_of(all_stock_info[code]))}

dividend_filtered(result_codes, all_stock_info, dividend_filter) ==
  LET passes(dividend_value) == dividend_value.some /\ dividend_value.v >= dividend_filter.v
  IN  {code \in result_codes :
         Has(all_stock_info, code) /\ passes(dividend_value_of(all_stock_info[code]))}

industry_filtered(result_codes, all_stock_info, industry_filter) ==
  {code \in result_codes :
     /\ Has(all_stock_info, code)
     /\ Has(all_stock_info[code], "hangye")
     /\ all_stock_info[code]["hangye"] \in industry_filter}

finance_cols == {"dangqianROE", "koufeiPE", "PB", "guxilv"}
end_cols == {"jinnianlai", "hangye"}

\* StockDataManager._build_result_dataframe
\* (gupiaodaima 股票代码, gupiaomingcheng 股票名称)
build_result_dataframe(st, common_codes, selected_types, sub_types) ==
  LET keys == {instance_key_of(selected_types[i], Get(sub_types, selected_types[i], NoSub)) :
                 i \in DOMAIN selected_types}
      extra_cols == UNION {DOMAIN st.stock_data_instances[k].extra_data :
                             k \in keys \cap DOMAIN st.stock_data_instances}
                      \ (finance_cols \cup end_cols \cup {"ROE"})
      info_cols == {"hangye", "jinnianlai"} \cup finance_cols \cup extra_cols
  IN  { [col \in {"gupiaodaima", "gupiaomingcheng"} \cup info_cols |->
           IF col = "gupiaodaima" THEN code
           ELSE IF col = "gupiaomingcheng" THEN Get(st.all_stock_info[code], "mingcheng", <<>>)
           ELSE Get(st.all_stock_info[code], col, <<>>)] :
        code \in common_codes \cap DOMAIN st.all_stock_info }

\* StockDataManager.filter_stocks.  req = [selected_types, sub_types,
\* industry_filter, roe_filter, dividend_filter]
filter_stocks(st, env, req) ==
  LET instance_keys == [i \in DOMAIN req.selected_types |->
                          instance_key_of(req.selected_types[i],
                                          Get(req.sub_types, req.selected_types[i], NoSub))]
      \* the industry, dividend and ROE filters on result_codes, s being the
      \* manager after the loading loop
      by_industry(s, c2) ==
        IF req.industry_filter # {}
          THEN industry_filtered(c2, s.all_stock_info, req.industry_filter) ELSE c2
      by_dividend(s, c1) ==
        by_industry(s, IF req.dividend_filter.some
                         THEN dividend_filtered(c1, s.all_stock_info, req.dividend_filter)
                       ELSE c1)
      by_roe(s, c0) ==
        by_dividend(s, IF req.roe_filter.some
                         THEN roe_filtered(c0, s.all_stock_info, req.roe_filter)
                       ELSE c0)
      built(s, c3) ==
        IF c3 = {} THEN [df |-> EmptyTable, st |-> s]
        ELSE [df |-> build_result_dataframe(s, c3, req.selected_types, req.sub_types),
              st |-> s]
      filtered(s, c0) ==
        IF c0 = {} THEN [df |-> EmptyTable, st |-> s] ELSE built(s, by_roe(s, c0))
      after_load(loaded) ==
        IF ~loaded.ok THEN [df |-> EmptyTable, st |-> loaded.st]
        ELSE filtered(loaded.st, common_codes_of(instance_keys, loaded.st.filtered_codes))
  IN  IF req.selected_types = <<>> THEN [df |-> EmptyTable, st |-> st]
      ELSE after_load(load_selected(st, env, req.selected_types, req.sub_types))

(***************************************************************************)
(* Requests.  A filter request is the argument record of filter_stocks;    *)
(* a load_stock_data call is recorded as the one-category request it       *)
(* amounts to.                                                             *)
(***************************************************************************)
Request(selected_types, sub_types, industry_filter, roe_filter, dividend_filter) ==
  [selected_types |-> selected_types, sub_types |-> sub_types,
   industry_filter |-> industry_filter, roe_filter |-> roe_filter,
   dividend_filter |-> dividend_filter]

NoRequest == Request(<<>>, EmptyDict, {}, None, None)

\* sub_types dicts the callers pass
Sub3 == ("ROElianxuchao15" :> "lianxu3nian") @@ ("guxilvpaiming" :> "jin3nian")
Sub2 == ("ROElianxuchao15" :> "lianxu5nian") @@ ("guxilvpaiming" :> "jin2nian")
Sub5 == ("ROElianxuchao15" :> "lianxu9nian") @@ ("guxilvpaiming" :> "jin5nian")

\* (selected_types, sub_types) pairs the callers pass; weidingyi is a
\* category the catalogue does not define, lianxu9nian a sub-variant it
\* does not define, jin5nian a file without data rows
Selections ==
  { <<<<"beishangzijinchigu">>, EmptyDict>>,
    <<<<"ROElianxuchao15">>, Sub3>>,
    <<<<"guxilvpaiming">>, Sub3>>,
    <<<<"beishangzijinchigu", "ROEpaiming">>, EmptyDict>>,
    <<<<"beishangzijinchigu", "ROElianxuchao15">>, Sub3>>,
    <<<<"ROEpaiming", "guxilvpaiming">>, Sub3>>,
    <<<<"beishangzijinchigu", "guxilvpaiming", "ROEpaiming">>, Sub3>>,
    <<<<"beishangzijinchigu", "ROEpaiming", "ROElianxuchao15">>, Sub3>>,
    <<<<"guxilvpaiming", "beishangzijinchigu">>, Sub2>>,
    <<<<"guxilvpaiming", "beishangzijinchigu">>, Sub5>>,
    <<<<"ROElianxuchao15", "beishangzijinchigu">>, Sub5>>,
    <<<<"weidingyi", "beishangzijinchigu">>, EmptyDict>> }

\* the requests without threshold or allow-list
PlainRequests == {Request(sel[1], sel[2], {}, None, None) : sel \in Selections}

\* the requests with an ROE threshold of 15
ROERequests ==
  { Request(<<"beishangzijinchigu">>, EmptyDict, {}, Some(15), None),
    Request(<<"ROEpaiming">>, EmptyDict, {}, Some(15), None),
    Request(<<"ROElianxuchao15">>, Sub3, {}, Some(15), None),
    Request(<<"ROElianxuchao15">>, Sub2, {}, Some(15), None),
    Request(<<"beishangzijinchigu", "ROElianxuchao15">>, Sub3, {}, Some(15), None) }

\* the requests with a dividend threshold of 3
DividendRequests ==
  { Request(<<"guxilvpaiming">>, Sub3, {}, None, Some(3)),
    Request(<<"ROEpaiming", "guxilvpaiming">>, Sub3, {}, None, Some(3)),
    Request(<<"ROEpaiming">>, EmptyDict, {}, None, Some(3)) }

\* the requests with the allow-list [K]
IndustryRequests ==
  { Request(<<"beishangzijinchigu">>, EmptyDict, {<<"K">>}, None, None),
    Request(<<"guxilvpaiming">>, Sub3, {<<"K">>}, None, None),
    Request(<<"beishangzijinchigu", "ROElianxuchao15">>, Sub3, {<<"K">>}, Some(15), None),
    Request(<<"ROEpaiming", "guxilvpaiming">>, Sub3, {<<"K">>}, None, Some(3)) }

Requests == PlainRequests \cup ROERequests \cup DividendRequests \cup IndustryRequests

\* (stock_type, sub_type) arguments of direct load_stock_data calls
LoadArgs ==
  { <<"beishangzijinchigu", NoSub>>, <<"ROEpaiming", NoSub>>,
    <<"ROElianxuchao15", "lianxu3nian">>, <<"ROElianxuchao15", "lianxu5nian">>,
    <<"guxilvpaiming", "jin3nian">>, <<"guxilvpaiming", "jin5nian">>,
    <<"weidingyi", NoSub>> }

(***************************************************************************)
(* The first implementation (modules/stock_filter.py).  It keeps raw cells *)
(* in its dicts, reads no cache and builds everything anew on each call.   *)
(***************************************************************************)
\* stock_data_types of stock_filter, the categories the model carries
stock_data_types ==
  [ beishangzijinchigu |->
      [ file |-> "The_highest_proportion_of_northbound_funds_held.csv",
        file_pattern |-> <<>>, sub_types |-> <<>>, date_dependent |-> TRUE,
        extra_columns |-> << <<"chiyoushizhi", "chiyoushizhi.yi">>,
                             <<"chigubi", "chigubi">> >> ],
    ROEpaiming |->
      [ file |-> "Highest_ROE_ranking.csv",
        file_pattern |-> <<>>, sub_types |-> <<>>, date_dependent |-> TRUE,
        extra_columns |-> << <<"ROE", "ROE">> >> ],
    ROElianxuchao15 |->
      [ file |-> "",
        file_pattern |-> <<"ROE_exceeded_15p_", "_consecutive_years.csv">>,
        sub_types |-> << <<"lianxu3nian", "three">>, <<"lianxu5nian", "five">> >>,
        date_dependent |-> TRUE,
        extra_columns |-> << <<"pingjunROE", "ROE">>,
                             <<"beishangchigu", "beishangchigu">> >> ],
    guxilvpaiming |->
      [ file |-> "",
        file_pattern |-> <<"Highest_dividend_yield_in_the_past_", ".csv">>,
        sub_types |-> << <<"jin2nian", "two_years">>, <<"jin3nian", "three_years">>,
                         <<"jin5nian", "five_years">> >>,
        date_dependent |-> TRUE,
        extra_columns |-> << <<"pingjunguxi", "pingjun guxi">> >> ] ]

\* the code a cell yields: the body of the loop of extract_stock_codes, and
\* of the row loops of stock_filter
code_of_value(value) ==
  LET padded(digits) == IF digits # <<>> THEN zfill(digits, CODE_WIDTH) ELSE <<>>
      cleaned(value_str) ==
        padded(sub_non_digits(
          IF Contains(value_str, ".")
            THEN sub_exchange_prefix(split(value_str, ".")[1])
          ELSE IF Contains(value_str, ",")
            THEN LET parts == split(value_str, ",")
                 IN  IF Len(parts) > 1 THEN sub_exchange_prefix(strip(parts[2]))
                     ELSE value_str
          ELSE value_str))
  IN  cleaned(strip(Remove(str(value), "'")))

\* extract_stock_codes(df[column])
extract_stock_codes(df, column) ==
  {code_of_value(df.rows[i][column]) : i \in DOMAIN df.rows} \ {<<>>}

\* re.match(r'^(SH|SZ)\d+$', s)
match_prefixed_digits(s) ==
  Len(s) >= 3 /\ s[1] = "S" /\ s[2] \in {"H", "Z"} /\ isdigit(SubSeq(s, 3, Len(s)))

\* re.search(r'(\d{6})', s): the match, or <<>>
search_six_digits(s) ==
  LET at == {i \in 1..(Len(s) - 5) : isdigit(SubSeq(s, i, i + 5))}
  IN  IF at = {} THEN <<>>
      ELSE LET i == CHOOSE i \in at : \A j \in at : i <= j IN SubSeq(s, i, i + 5)

NanText == <<"n", "a", "n">>

\* the code-column loop of update_stock_info for one row: [code, name]
RECURSIVE scan_code_columns(_, _, _)
scan_code_columns(df, row, cols) ==
  IF cols = <<>> THEN [code |-> <<>>, name |-> <<>>]
  ELSE IF Head(cols) \notin Range(df.columns) THEN scan_code_columns(df, row, Tail(cols))
  ELSE
    LET col_data == strip(Remove(str(row[Head(cols)]), "'"))
        parts == split(col_data, ",")
        halves == split1(col_data, ".")
        digits == sub_non_digits(sub_exchange_prefix(col_data))
    IN  IF col_data = <<>> \/ col_data = NanText
          THEN scan_code_columns(df, row, Tail(cols))
        ELSE IF Contains(col_data, ".")
          THEN LET clean == sub_non_digits(sub_exchange_prefix(halves[1]))
               IN  [code |-> IF clean # <<>> THEN zfill(clean, CODE_WIDTH) ELSE <<>>,
                    name |-> strip(halves[2])]
        ELSE IF Contains(col_data, ",")
          THEN IF isdigit(parts[1])
                  /\ (isdigit(parts[2]) \/ match_prefixed_digits(parts[2]))
                 THEN [code |-> zfill(sub_non_digits(sub_exchange_prefix(parts[2])),
                                      CODE_WIDTH),
                       name |-> IF Len(parts) > 2 THEN strip(parts[3]) ELSE <<>>]
               ELSE scan_code_columns(df, row, Tail(cols))
        ELSE IF isdigit(col_data) \/ match_prefixed_digits(col_data)
          THEN [code |-> zfill(digits, CODE_WIDTH), name |-> <<>>]
        ELSE scan_code_columns(df, row, Tail(cols))

\* the name-column loop of update_stock_info for one row
RECURSIVE scan_name_columns(_, _, _)
scan_name_columns(df, row, cols) ==
  IF cols = <<>> THEN <<>>
  ELSE IF Head(cols) \notin Range(df.columns) THEN scan_name_columns(df, row, Tail(cols))
  ELSE
    LET name_data == strip(Remove(str(row[Head(cols)]), "'"))
    IN  IF name_data = <<>> \/ name_data = NanText
          THEN scan_name_columns(df, row, Tail(cols))
        ELSE IF Contains(name_data, ".") THEN strip(split(name_data, ".")[2])
        ELSE IF Contains(name_data, ",") THEN strip(split(name_data, ",")[1])
        ELSE name_data

\* default_columns of update_stock_info: <<std_col, candidates>>
default_columns ==
  << <<"dangqianROE", <<"dangqianROE", "ROE", "roe">> >>,
     <<"koufeiPE", <<"koufeiPE", "koufeipe", "PE", "pe">> >>,
     <<"PB", <<"PB", "pb">> >>,
     <<"guxi", <<"guxi", "guxilv", "guxi%">> >>,
     <<"jinnianlai", <<"jinnianlai", "jinnianzhangfu", "nianchuzhijin">> >> >>

\* the body of the row loop of update_stock_info
update_stock_info_row(stock_info, df, row) ==
  LET industry_column == first_present(<<"hangye", "suoshuhangye", "shenwanhangye">>, df)
      industry_data == IF industry_column # NoColumn THEN strip(str(row[industry_column]))
                       ELSE <<>>
      industry == IF industry_data # NanText THEN industry_data ELSE <<>>
      mapped == {i \in DOMAIN default_columns :
                   /\ first_present(default_columns[i][2], df) # NoColumn
                   /\ notna(row[first_present(default_columns[i][2], df)])}
      values == [dst \in {default_columns[i][1] : i \in mapped} |->
                   row[first_present(
                         default_columns[CHOOSE i \in mapped : default_columns[i][1] = dst][2],
                         df)]]
      \* the record of code after the row, name being the name the row gave
      updated(code, name) ==
        IF code = <<>> THEN stock_info
        ELSE Put(stock_info, code,
                 values @@
                   [(IF Has(stock_info, code) THEN stock_info[code]
                     ELSE [mingcheng |-> Str(name), hangye |-> Str(industry)])
                      EXCEPT
                        !.mingcheng = IF ~truthy(@) /\ name # <<>> THEN Str(name) ELSE @,
                        !.hangye = IF ~truthy(@) /\ industry # <<>> THEN Str(industry)
                                   ELSE @])
      named(scanned, name) ==
        updated(IF name # <<>> /\ scanned.code = <<>> THEN search_six_digits(name)
                ELSE scanned.code,
                name)
      coded(scanned) ==
        named(scanned,
              IF scanned.name # <<>> THEN scanned.name
              ELSE scan_name_columns(df, row,
                     <<"gupiaomingcheng", "mingcheng", "gupiao",
                       "gupiaomingcheng,gupiaodaima", "gupiaomingcheng,suoshuhangye">>))
  IN  coded(scan_code_columns(df, row,
              <<"xu", "daima", "gupiaodaima", "gupiao", "gupiaodaima",
                "gupiaodaima,gupiaomingcheng", "xuhao">>))

\* update_stock_info
RECURSIVE update_stock_info_rows(_, _, _)
update_stock_info_rows(stock_info, df, rows) ==
  IF rows = <<>> THEN stock_info
  ELSE update_stock_info_rows(update_stock_info_row(stock_info, df, Head(rows)), df,
                              Tail(rows))

update_stock_info(stock_info, df) == update_stock_info_rows(stock_info, df, df.rows)

\* info_files of load_all_stock_info, in order.  Left out, being absent
\* from every content of the data directory the model has: the hot-stock,
\* cheapest-stock, PEG and research-report files, the fund-holdings files
\* of data/stock and the two .txt files
info_files ==
  << "The_highest_proportion_of_northbound_funds_held.csv",
     "Highest_ROE_ranking.csv",
     "Highest_dividend_yield_in_the_past_three_years.csv",
     "Highest_dividend_yield_in_the_past_two_years.csv",
     "Highest_dividend_yield_in_the_past_five_years.csv",
     "ROE_exceeded_15p_three_consecutive_years.csv",
     "ROE_exceeded_15p_five_consecutive_years.csv" >>

\* load_all_stock_info
RECURSIVE load_all_stock_info(_, _, _, _)
load_all_stock_info(stock_info, fs, selected_date, files) ==
  IF files = <<>> THEN stock_info
  ELSE
    LET file_path == join(Append(DATA_DIR, selected_date), Head(files))
    IN  load_all_stock_info(IF exists(fs, file_path)
                              THEN update_stock_info(stock_info, fs[file_path])
                            ELSE stock_info,
                            fs, selected_date, Tail(files))

\* a row loop of stock_filter that copies one column into extra_data[display_name]
RECURSIVE copy_extra_column(_, _, _, _)
copy_extra_column(data_dict, rows, code_column, source_column) ==
  IF rows = <<>> THEN data_dict
  ELSE
    LET value == Head(rows)[source_column]
        copied(stock_code) ==
          IF stock_code # <<>> /\ notna(value)
            THEN Put(data_dict, stock_code, value) ELSE data_dict
    IN  copy_extra_column(copied(code_of_value(Head(rows)[code_column])),
                          Tail(rows), code_column, source_column)

\* one turn of the extra_columns loop of stock_filter
extra_column_step(extra_data, stock_type, display_name, source_column, df, code_column, stock_codes, stock_info, stock_sets) ==
  LET data_dict == Get(extra_data, display_name, EmptyDict)
      found_column == first_present(<<"ROE", "roe", "pingjunROE", "pingjunroe", "ROE(%)",
                                      "roe(%)", "pingjunROE(%)", "pingjunroe(%)">>, df)
      from_current == [c \in {c \in stock_codes : Has(stock_info, c)
                                                    /\ Has(stock_info[c], "dangqianROE")} |->
                         stock_info[c]["dangqianROE"]]
      held == [c \in stock_codes |->
                 IF c \in stock_sets["beishangzijinchigu"]
                   THEN Str(<<"s", "h", "i">>) ELSE Str(<<"f", "o", "u">>)]
  IN  Put(extra_data, display_name,
          IF stock_type = "ROElianxuchao15" /\ display_name = "pingjunROE"
            THEN IF found_column # NoColumn
                   THEN copy_extra_column(data_dict, df.rows, code_column, found_column)
                 ELSE from_current @@ data_dict
          ELSE IF stock_type = "ROElianxuchao15" /\ display_name = "beishangchigu"
            THEN IF "beishangchigu" \in Range(df.columns)
                   THEN copy_extra_column(data_dict, df.rows, code_column, "beishangchigu")
                 ELSE IF Has(stock_sets, "beishangzijinchigu") THEN held @@ data_dict
                 ELSE data_dict
          ELSE IF source_column \in Range(df.columns)
            THEN copy_extra_column(data_dict, df.rows, code_column, source_column)
          ELSE data_dict)

RECURSIVE extra_columns_loop(_, _, _, _, _, _, _, _)
extra_columns_loop(extra_data, stock_type, extra_columns, df, code_column, stock_codes, stock_info, stock_sets) ==
  IF extra_columns = <<>> THEN extra_data
  ELSE extra_columns_loop(
         extra_column_step(extra_data, stock_type, Head(extra_columns)[1],
                           Head(extra_columns)[2], df, code_column, stock_codes,
                           stock_info, stock_sets),
         stock_type, Tail(extra_columns), df, code_column, stock_codes, stock_info,
         stock_sets)

\* an undefined category recorded as a category without codes
undefined_type_as_empty(acc, stock_type) ==
  [acc EXCEPT !.stock_sets = Put(@, stock_type, {})]

\* the turn of the loop of stock_filter for a stock_type that
\* stock_data_types does not define: continue
undefined_type(acc, stock_type) == acc

\* one turn of the selected_types loop of stock_filter;
\* acc = [stock_sets, stock_info, extra_data]
type_step(acc, fs, selected_date, stock_type, sub_types) ==
  IF stock_type \notin DOMAIN stock_data_types THEN undefined_type(acc, stock_type)
  ELSE
    LET type_config == stock_data_types[stock_type]
        data_dir == Append(DATA_DIR, selected_date)
        given == Get(sub_types, stock_type, NoSub)
        sub_type == IF given = NoSub /\ type_config.sub_types # <<>>
                      THEN type_config.sub_types[1][1] ELSE given
        file_path ==
          IF type_config.sub_types = <<>>
            THEN join(IF type_config.date_dependent THEN data_dir ELSE DATA_DIR,
                      type_config.file)
          ELSE join(data_dir,
                    type_config.file_pattern[1] \o Lookup(type_config.sub_types, sub_type)
                      \o type_config.file_pattern[2])
        \* the accumulators after the turn
        merged(df, code_column, stock_codes, stock_info) ==
          [stock_sets |-> Put(acc.stock_sets, stock_type, stock_codes),
           stock_info |-> stock_info,
           extra_data |-> extra_columns_loop(acc.extra_data, stock_type,
                                             type_config.extra_columns, df, code_column,
                                             stock_codes, stock_info, acc.stock_sets)]
        \* listed_codes: the codes of the first candidate column, if any
        extracted(df, listed, listed_codes) ==
          merged(df,
                 IF listed_codes = {} THEN df.columns[1] ELSE listed,
                 IF listed_codes = {} THEN extract_stock_codes(df, df.columns[1])
                 ELSE listed_codes,
                 update_stock_info(acc.stock_info, df))
        located(df, listed) ==
          extracted(df, listed,
                    IF listed # NoColumn THEN extract_stock_codes(df, listed) ELSE {})
        read(df) ==
          located(df, first_present(<<"daima", "gupiaodaima", "code", "stock_code",
                                      "gupiao", "xu">>, df))
    IN  IF type_config.sub_types # <<>> /\ sub_type \notin Keys(type_config.sub_types)
          THEN acc
        ELSE IF ~exists(fs, file_path)
          THEN [acc EXCEPT !.stock_sets = Put(@, stock_type, {})]
        ELSE read(fs[file_path])

RECURSIVE types_loop(_, _, _, _, _)
types_loop(acc, fs, selected_date, selected_types, sub_types) ==
  IF selected_types = <<>> THEN acc
  ELSE types_loop(type_step(acc, fs, selected_date, Head(selected_types), sub_types),
                  fs, selected_date, Tail(selected_types), sub_types)

\* set.intersection(*sets)
RECURSIVE intersection(_)
intersection(sets) ==
  IF sets = {} THEN {}
  ELSE LET one == CHOOSE x \in sets : TRUE
       IN  IF sets = {one} THEN one ELSE one \cap intersection(sets \ {one})

\* one try block of the threshold filters of stock_filter: the number in a
\* row's column, None when the column is absent, empty or does not parse
row_number(row, column) ==
  IF column \in DOMAIN row /\ truthy(row[column])
    THEN LET text == Remove(str(row[column]), "%")
         IN  IF text # <<>> /\ text # <<"-">> THEN float(text) ELSE None
  ELSE None

\* roe_value of the ROE filter of stock_filter
row_roe_value(row) ==
  LET v1 == row_number(row, "pingjunROE")
      v2 == IF v1.some THEN v1 ELSE row_number(row, "dangqianROE")
  IN  IF v2.some THEN v2 ELSE row_number(row, "ROE")

\* dividend_value of the dividend filter of stock_filter
row_dividend_value(row) ==
  LET v1 == row_number(row, "pingjunguxi")
  IN  IF v1.some THEN v1 ELSE row_number(row, "guxi")

Blank == Str(<<>>)

\* the row stock_filter builds for a code (suoshuhangye 所属行业)
result_row(stock_code, stock_info, extra_data) ==
  LET info == stock_info[stock_code]
      base == [gupiaodaima |-> Str(stock_code),
               gupiaomingcheng |-> Get(info, "mingcheng", Blank),
               suoshuhangye |-> Get(info, "hangye", Blank),
               dangqianROE |-> Get(info, "dangqianROE", Blank),
               koufeiPE |-> Get(info, "koufeiPE", Blank),
               PB |-> Get(info, "PB", Blank),
               guxi |-> Get(info, "guxi", Blank),
               jinnianlai |-> Get(info, "jinnianlai", Blank)]
  IN  [column \in DOMAIN extra_data |-> Get(extra_data[column], stock_code, Blank)] @@ base

\* stock_filter of modules/stock_filter.py; raised = TRUE is the KeyError
\* of stock_info[stock_code] for a code no file gave a record
stock_filter(fs, selected_date, req) ==
  LET passes_roe(roe_value) == roe_value.some /\ roe_value.v >= req.roe_filter.v
      passes_dividend(dividend_value) ==
        dividend_value.some /\ dividend_value.v >= req.dividend_filter.v
      \* the dividend, ROE and industry filters on the rows
      by_dividend(roe_rows) ==
        IF req.dividend_filter.some
          THEN {row \in roe_rows : passes_dividend(row_dividend_value(row))}
        ELSE roe_rows
      by_roe(kept) ==
        by_dividend(IF req.roe_filter.some
                      THEN {row \in kept : passes_roe(row_roe_value(row))}
                    ELSE kept)
      by_industry(result_data) ==
        by_roe({row \in result_data :
                  ~(/\ req.industry_filter # {}
                    /\ truthy(row["suoshuhangye"])
                    /\ str(row["suoshuhangye"]) \notin req.industry_filter)})
      answered(loaded, common_stocks) ==
        IF loaded.stock_sets = EmptyDict \/ common_stocks = {}
          THEN [raised |-> FALSE, df |-> EmptyTable]
        ELSE IF \E c \in common_stocks : ~Has(loaded.stock_info, c)
          THEN [raised |-> TRUE, df |-> EmptyTable]
        ELSE [raised |-> FALSE,
              df |-> {[column \in {"gupiaodaima", "gupiaomingcheng", "suoshuhangye",
                                    "dangqianROE", "koufeiPE", "PB", "guxi", "jinnianlai"}
                                     \cup (DOMAIN loaded.extra_data \ {"ROE"}) |->
                         row[column]] :
                        row \in by_industry({result_row(c, loaded.stock_info,
                                                        loaded.extra_data) :
                                               c \in common_stocks})}]
      intersected(loaded) ==
        answered(loaded,
                 intersection({loaded.stock_sets[t] : t \in DOMAIN loaded.stock_sets}))
  IN  intersected(types_loop([stock_sets |-> EmptyDict,
                              stock_info |-> load_all_stock_info(EmptyDict, fs,
                                                                 selected_date, info_files),
                              extra_data |-> EmptyDict],
                             fs, selected_date, req.selected_types, req.sub_types))

\* stock_filter of modules/stock_filter.py for every request, against each
\* content of the data directory (a function of the files alone)
Answers ==
  Table({<<w, Table({<<date,
                       Table({<<req, stock_filter(Worlds[w], date, req)>> :
                                req \in Requests})>> :
                      date \in Dates})>> :
           w \in DOMAIN Worlds})

\* stock_filter of modules/stock_filter_new.py: a manager of its own
stock_filter_new(cache_dir, env, req) == filter_stocks(NewSelf(cache_dir), env, req)

(***************************************************************************)
(* modules/fund_filter.py.  Python floats are carried as exact fractions   *)
(* [n, d] in lowest terms with d > 0, so the rounding of binary floating   *)
(* point is left out of the arithmetic.                                    *)
(*   jin1zhou 近1周, jin1yue 近1月, jin3yue 近3月, jin6yue 近6月,           *)
(*   jin1nian 近1年, jin2nian 近2年, jin3nian 近3年,                        *)
(*   jijindaima 基金代码, jijinjiancheng 基金简称, jijinleixing 基金类型,   *)
(*   jijinjingli 基金经理, jijingongsi 基金公司, jinnianlai 今年来,         *)
(*   chenglilai 成立来, nianhuashouyilv 年化收益率,                        *)
(*   shangshinianxian 上市年限, di1nianshouyilv 第1年收益率, ...,           *)
(*   quanbu 全部, zhaiquanxing 债券型, hunhexing 混合型, jijin_ 基金_       *)
(***************************************************************************)
RECURSIVE GCD(_, _)
GCD(a, b) == IF b = 0 THEN a ELSE GCD(b, a % b)

Abs(k) == IF k < 0 THEN -k ELSE k

\* the float n / d
Frac(n, d) ==
  LET reduced(g) == [n |-> (IF (n < 0) = (d < 0) THEN 1 ELSE -1) * (Abs(n) \div g),
                     d |-> Abs(d) \div g]
  IN  reduced(GCD(Abs(n), Abs(d)))

Whole(k) == [n |-> k, d |-> 1]
\* None where a float is expected
NoFloat == [some |-> FALSE, v |-> Whole(0)]
fadd(a, b) == Frac(a.n * b.d + b.n * a.d, a.d * b.d)
fsub(a, b) == Frac(a.n * b.d - b.n * a.d, a.d * b.d)
fmul(a, b) == Frac(a.n * b.n, a.d * b.d)
fdiv(a, b) == Frac(a.n * b.d, a.d * b.n)
flt(a, b) == a.n * b.d < b.n * a.d

\* float(s) of a signed decimal numeral with an optional fraction; any
\* other text raises ValueError (None here)
parse_float(s) ==
  LET parsed(negative, halves) ==
        LET fraction == IF Len(halves) = 2 THEN halves[2] ELSE <<>>
        IN  IF /\ halves[1] \o fraction # <<>>
               /\ \A i \in DOMAIN (halves[1] \o fraction) : IsDigit((halves[1] \o fraction)[i])
              THEN Some(Frac((IF negative THEN -1 ELSE 1)
                               * (DecVal(halves[1]) * 10 ^ Len(fraction) + DecVal(fraction)),
                             10 ^ Len(fraction)))
            ELSE NoFloat
      signed(t) ==
        IF t # <<>> /\ t[1] \in {"-", "+"} THEN parsed(t[1] = "-", split1(Tail(t), "."))
        ELSE parsed(FALSE, split1(t, "."))
  IN  signed(strip(s))

\* pct2float of fund_filter
pct2float(x) ==
  IF ~notna(x) \/ strip(str(x)) = <<"-", "-", "-">> THEN NoFloat
  ELSE parse_float(Remove(str(x), "%"))

time_periods ==
  <<"jin1zhou", "jin1yue", "jin3yue", "jin6yue", "jin1nian", "jin2nian", "jin3nian">>

\* 1 + value / 100
total_return(value) == fadd(Whole(1), fdiv(value, Whole(100)))

\* (total_long / total_short - 1) * 100
single_year(total_long, total_short) ==
  fmul(fsub(fdiv(total_long, total_short), Whole(1)), Whole(100))

\* year1 taken from the shortest window first
year1_return_short_first(row) ==
  IF row["jin1yue"].some THEN Some(fmul(row["jin1yue"].v, Whole(12)))
  ELSE IF row["jin3yue"].some THEN Some(fmul(row["jin3yue"].v, Whole(4)))
  ELSE IF row["jin6yue"].some THEN Some(fmul(row["jin6yue"].v, Whole(2)))
  ELSE IF row["jin1nian"].some THEN row["jin1nian"]
  ELSE NoFloat

\* year1 of calculate_annual_returns; row gives, per period, the value of
\* its <period>_数值 column
year1_return(row) ==
  IF row["jin1nian"].some THEN row["jin1nian"]
  ELSE IF row["jin6yue"].some THEN Some(fmul(row["jin6yue"].v, Whole(2)))
  ELSE IF row["jin3yue"].some THEN Some(fmul(row["jin3yue"].v, Whole(4)))
  ELSE IF row["jin1yue"].some THEN Some(fmul(row["jin1yue"].v, Whole(12)))
  ELSE NoFloat

\* year2 with the 2-year total squared
year2_return_squared(row) ==
  IF row["jin2nian"].some /\ row["jin1nian"].some /\ total_return(row["jin1nian"].v) # Whole(0)
    THEN Some(single_year(fmul(total_return(row["jin2nian"].v), total_return(row["jin2nian"].v)),
                          total_return(row["jin1nian"].v)))
  ELSE NoFloat

\* year2 of calculate_annual_returns
year2_return(row) ==
  IF row["jin2nian"].some /\ row["jin1nian"].some /\ total_return(row["jin1nian"].v) # Whole(0)
    THEN Some(single_year(total_return(row["jin2nian"].v), total_return(row["jin1nian"].v)))
  ELSE NoFloat

\* year3 only for a row that has the 1-year window too
year3_return_needs_year1(row) ==
  IF /\ row["jin3nian"].some /\ row["jin2nian"].some /\ row["jin1nian"].some
     /\ total_return(row["jin2nian"].v) # Whole(0)
    THEN Some(single_year(total_return(row["jin3nian"].v), total_return(row["jin2nian"].v)))
  ELSE NoFloat

\* year3 of calculate_annual_returns
year3_return(row) ==
  IF row["jin3nian"].some /\ row["jin2nian"].some /\ total_return(row["jin2nian"].v) # Whole(0)
    THEN Some(single_year(total_return(row["jin3nian"].v), total_return(row["jin2nian"].v)))
  ELSE NoFloat

\* calculate_annual_returns of fund_filter
calculate_annual_returns(row) ==
  [year1 |-> year1_return(row), year2 |-> year2_return(row), year3 |-> year3_return(row)]

\* calculate_annualized_return of fund_filter: the mean of the years present
calculate_annualized_return(returns) ==
  LET years == SelectSeq(<<returns.year1, returns.year2, returns.year3>>,
                         LAMBDA year : year.some)
      RECURSIVE sum(_)
      sum(ys) == IF ys = <<>> THEN Whole(0) ELSE fadd(Head(ys).v, sum(Tail(ys)))
  IN  IF years # <<>> THEN Some(fdiv(sum(years), Whole(Len(years)))) ELSE NoFloat

\* period_years of calculate_listed_years, longest window first
period_years ==
  << <<"jin3nian", Whole(3)>>, <<"jin2nian", Whole(2)>>, <<"jin1nian", Whole(1)>>,
     <<"jin6yue", Frac(1, 2)>>, <<"jin3yue", Frac(1, 4)>>, <<"jin1yue", Frac(1, 12)>>,
     <<"jin1zhou", Frac(1, 52)>> >>

\* calculate_listed_years of fund_filter
calculate_listed_years(row) ==
  LET present == {i \in DOMAIN period_years : row[period_years[i][1]].some}
  IN  IF present = {} THEN Whole(0)
      ELSE period_years[CHOOSE i \in present : \A j \in present : i <= j][2]

\* min(int(x) if x >= 1 else 0, 3) for the column 有效年数
valid_years(listed) ==
  IF flt(listed, Whole(1)) THEN 0
  ELSE IF listed.n \div listed.d < 3 THEN listed.n \div listed.d ELSE 3

\* code point order of the characters item names are made of
Chars == <<".", "0", "1", "2", "3", "4", "5", "6", "7", "8", "9", "_", "a", "b", "x">>
Ord(ch) == CHOOSE i \in DOMAIN Chars : Chars[i] = ch

\* a < b for str
RECURSIVE str_lt(_, _)
str_lt(a, b) ==
  IF b = <<>> THEN FALSE
  ELSE IF a = <<>> THEN TRUE
  ELSE IF Head(a) # Head(b) THEN Ord(Head(a)) < Ord(Head(b))
  ELSE str_lt(Tail(a), Tail(b))

\* dates.sort(reverse=True), on the names collected from os.listdir
RECURSIVE sort_reverse(_)
sort_reverse(names) ==
  IF names = {} THEN <<>>
  ELSE LET greatest == CHOOSE a \in names : \A b \in names : ~str_lt(a, b)
       IN  <<greatest>> \o sort_reverse(names \ {greatest})

\* get_available_fund_dates; items is data/fund, item name -> item (a
\* data/fund that does not exist lists as an empty one)
get_available_fund_dates(items) ==
  sort_reverse({item \in DOMAIN items :
                  /\ items[item].is_dir
                  /\ Len(item) = 7 /\ item[5] = "."
                  /\ \A i \in {1, 2, 3, 4, 6, 7} : IsDigit(item[i])})

\* get_available_dates of stock_data/utils.py; items is data/stock,
\* item name -> item
get_available_dates(items) ==
  sort_reverse({item \in DOMAIN items :
                  /\ items[item].is_dir /\ Contains(item, ".")
                  /\ Len(split(item, ".")) = 2
                  /\ isdigit(split(item, ".")[1]) /\ isdigit(split(item, ".")[2])})

\* sub in s, for str
IsInfix(sub, s) ==
  \E i \in 0..(Len(s) - Len(sub)) : SubSeq(s, i + 1, i + Len(sub)) = sub

\* s.replace(old, '')
RECURSIVE replace_out(_, _)
replace_out(s, old) ==
  IF Len(s) < Len(old) THEN s
  ELSE IF SubSeq(s, 1, Len(old)) = old THEN replace_out(SubSeq(s, Len(old) + 1, Len(s)), old)
  ELSE <<Head(s)>> \o replace_out(Tail(s), old)

RECURSIVE Digits(_)
Digits(k) == IF k < 10 THEN <<Chars[k + 2]>> ELSE Digits(k \div 10) \o <<Chars[(k % 10) + 2]>>

\* f"{x:.2f}%": x to two decimals, ties to even
format_percent(x) ==
  LET scaled == Abs(x.n) * 100
      rounded(q, r) == IF 2 * r > x.d \/ (2 * r = x.d /\ q % 2 = 1) THEN q + 1 ELSE q
      shown(h) ==
        (IF x.n < 0 /\ h # 0 THEN <<"-">> ELSE <<>>) \o Digits(h \div 100) \o <<".">>
          \o Digits((h % 100) \div 10) \o Digits(h % 10) \o <<"%">>
  IN  shown(rounded(scaled \div x.d, scaled % x.d))

\* s.endswith(suffix)
endswith(s, suffix) ==
  Len(s) >= Len(suffix) /\ SubSeq(s, Len(s) - Len(suffix) + 1, Len(s)) = suffix

TXT == <<".", "t", "x", "t">>
JIJIN_ == <<"j", "i", "j", "i", "n", "_">>
QUANBU == <<"q", "u", "a", "n", "b", "u">>

\* the headers of the fund files that carry surrounding blanks, and
\* c.strip() of each; every other header is its own strip()
PaddedHeaders == (" jin3nian" :> "jin3nian") @@ ("jin2nian " :> "jin2nian")
strip_header(c) == IF c \in DOMAIN PaddedHeaders THEN PaddedHeaders[c] ELSE c

\* df['jijinleixing'] = value
with_fund_type(df, value) ==
  [columns |-> df.columns \cup {"jijinleixing"},
   rows |-> {[c \in df.columns \cup {"jijinleixing"} |->
                IF c = "jijinleixing" THEN Str(value) ELSE row[c]] : row \in df.rows}]

\* pd.concat(dfs, ignore_index=True); a table is the set of its rows (the
\* order of the rows is the order of os.listdir)
concat(dfs) ==
  LET filled(columns) ==
        [columns |-> columns,
         rows |-> UNION {{[c \in columns |-> Get(row, c, NaN)] : row \in df.rows} : df \in dfs}]
  IN  filled(UNION {df.columns : df \in dfs})

\* df_all.columns = [c.strip() for c in df_all.columns]
strip_columns(df) ==
  [columns |-> {strip_header(c) : c \in df.columns},
   rows |-> {[c \in {strip_header(h) : h \in df.columns} |->
                row[CHOOSE h \in df.columns : strip_header(h) = c]] : row \in df.rows}]

\* a fund row with the columns fund_filter computes for it
computed_row(row) ==
  LET measured(values) ==
        LET with_returns(returns) ==
              [row |-> row, returns |-> returns,
               annualized |-> calculate_annualized_return(returns),
               listed |-> calculate_listed_years(values),
               valid_years |-> valid_years(calculate_listed_years(values))]
        IN  with_returns(calculate_annual_returns(values))
  IN  measured([i \in Range(time_periods) |-> pct2float(row[i])])

\* pd.isna(value) or value < threshold
below(value, threshold) == ~value.some \/ flt(value.v, threshold)

\* the annual-return filter of fund_filter, for one row
annual_return_valid(r, min_annual_return) ==
  /\ ~(r.valid_years >= 1 /\ below(r.returns.year1, min_annual_return))
  /\ ~(r.valid_years >= 2 /\ below(r.returns.year2, min_annual_return))
  /\ ~(r.valid_years >= 3 /\ below(r.returns.year3, min_annual_return))
  /\ r.annualized.some

\* the consecutive-return check without the listing-age requirement
consecutive_return_any_age(r, min_consecutive_return) ==
  /\ ~below(r.returns.year1, min_consecutive_return)
  /\ ~(r.valid_years >= 2 /\ below(r.returns.year2, min_consecutive_return))
  /\ ~(r.valid_years >= 3 /\ below(r.returns.year3, min_consecutive_return))

\* the consecutive-return filter of fund_filter, for one row
consecutive_return_valid(r, min_consecutive_return) ==
  /\ ~flt(r.listed, Whole(1))
  /\ ~below(r.returns.year1, min_consecutive_return)
  /\ ~(r.valid_years >= 2 /\ below(r.returns.year2, min_consecutive_return))
  /\ ~(r.valid_years >= 3 /\ below(r.returns.year3, min_consecutive_return))

\* df[column].str.contains(pattern, na=False), pattern without metacharacters
str_contains(cell, pattern) == cell.t = "str" /\ IsInfix(pattern, cell.s)

display_cols ==
  {"jijindaima", "jijinjiancheng", "jijinleixing", "jin1nian", "jin2nian", "jin3nian",
   "jinnianlai", "chenglilai"}

format_return(value) == IF value.some THEN Str(format_percent(value.v)) ELSE Str(<<"-", "-", "-">>)

\* the row of the result, formatted ("nian" stands for the character 年)
display_row(r, columns) ==
  [c \in display_cols \cup (columns \cap {"jijinjingli", "jijingongsi"}) |-> r.row[c]]
    @@ [nianhuashouyilv |-> format_return(r.annualized),
        shangshinianxian |-> Str(Digits(r.listed.n \div r.listed.d) \o <<"nian">>),
        di1nianshouyilv |-> format_return(r.returns.year1),
        di2nianshouyilv |-> format_return(r.returns.year2),
        di3nianshouyilv |-> format_return(r.returns.year3)]

\* an exception reaches the caller
Raised == [raised |-> TRUE, df |-> {}, computed |-> {}]

\* fund_filter(**args) over data/fund = items; df is the returned table,
\* computed the rows of df_all with their computed columns (history)
fund_filter(items, args) ==
  LET selected(r, columns) ==
        /\ flt(Whole(0), args.min_annual_return) => annual_return_valid(r, args.min_annual_return)
        /\ flt(Whole(0), args.min_consecutive_return)
             => consecutive_return_valid(r, args.min_consecutive_return)
        /\ flt(Whole(0), args.min_years_listed) => ~flt(r.listed, args.min_years_listed)
        /\ (args.fund_manager # <<>> /\ "jijinjingli" \in columns)
             => str_contains(r.row["jijinjingli"], args.fund_manager)
        /\ (args.fund_company # <<>> /\ "jijingongsi" \in columns)
             => str_contains(r.row["jijingongsi"], args.fund_company)
      shown(computed, columns) ==
        IF display_cols \subseteq columns
          THEN [raised |-> FALSE, computed |-> computed,
                df |-> {display_row(r, columns) : r \in {c \in computed : selected(c, columns)}}]
        ELSE [Raised EXCEPT !.computed = computed]
      converted(df_all) ==
        IF Range(time_periods) \subseteq df_all.columns
          THEN shown({computed_row(row) : row \in df_all.rows}, df_all.columns)
        ELSE Raised
      stripped(df_all) ==
        IF \E c, h \in df_all.columns : c # h /\ strip_header(c) = strip_header(h) THEN Raised
        ELSE converted(strip_columns(df_all))
      file_type(file) ==
        IF args.fund_type # QUANBU THEN args.fund_type
        ELSE replace_out(replace_out(file, TXT), JIJIN_)
      read(listing, files) ==
        IF files = {} THEN [raised |-> FALSE, df |-> {}, computed |-> {}]
        ELSE IF \E file \in files : listing[file].columns = {} THEN Raised
        ELSE stripped(concat({with_fund_type(listing[file], file_type(file)) : file \in files}))
      chosen(listing) ==
        read(listing, {f \in DOMAIN listing :
                         endswith(f, TXT) /\ (args.fund_type = QUANBU \/ IsInfix(args.fund_type, f))})
      opened(data_date) ==
        IF data_date \notin DOMAIN items \/ ~items[data_date].is_dir THEN Raised
        ELSE chosen(items[data_date].files)
      latest(available_dates) ==
        IF available_dates = <<>> THEN Raised ELSE opened(available_dates[1])
  IN  IF args.data_date.some THEN opened(args.data_date.v)
      ELSE latest(get_available_fund_dates(items))

(***************************************************************************)
(* data/fund as the model finds it                                         *)
(***************************************************************************)
Pct(numeral) == Str(numeral \o <<"%">>)
Dashes == Str(<<"-", "-", "-">>)

FundColumns ==
  {"jijindaima", "jijinjiancheng", "jin1zhou", "jin1yue", "jin3yue", "jin6yue", "jin1nian",
   "jin2nian", "jin3nian", "jinnianlai", "chenglilai", "jijinjingli", "jijingongsi"}

FundRow(code, w1, m1, m3, m6, y1, y2, y3, manager) ==
  [jijindaima |-> Num(code), jijinjiancheng |-> Str(<<"F">> \o code), jin1zhou |-> w1,
   jin1yue |-> m1, jin3yue |-> m3, jin6yue |-> m6, jin1nian |-> y1, jin2nian |-> y2,
   jin3nian |-> y3, jinnianlai |-> m6, chenglilai |-> y3, jijinjingli |-> manager,
   jijingongsi |-> Str(<<"c">>)]

\* 10%, then 21% over two years, then 33.1% over three: 10% in each year
Steady ==
  FundRow(<<"1">>, Pct(<<"0", ".", "2">>), Pct(<<"1">>), Pct(<<"2">>), Pct(<<"5">>),
          Pct(<<"1", "0", ".", "0", "0">>), Pct(<<"2", "1">>), Pct(<<"3", "3", ".", "1">>),
          Str(<<"a", ";", "b">>))
\* no 1-year figure: 2.5% over six months, 10% over two years, 16.6% over three
Gap ==
  FundRow(<<"2">>, Pct(<<"0">>), Pct(<<"1">>), Pct(<<"1">>), Pct(<<"2", ".", "5">>),
          Dashes, Pct(<<"1", "0">>), Pct(<<"1", "6", ".", "6">>), Str(<<"b">>))
\* lost everything within the year
Wiped ==
  FundRow(<<"3">>, Pct(<<"0">>), Pct(<<"0">>), Pct(<<"0">>), Pct(<<"-", "5", "0">>),
          Pct(<<"-", "1", "0", "0">>), Pct(<<"-", "1", "0", "0">>), Pct(<<"-", "1", "0", "0">>),
          NaN)
\* a month old
Young ==
  FundRow(<<"4">>, Pct(<<"0", ".", "5">>), Pct(<<"1">>), Dashes, Dashes, Dashes, Dashes, NaN,
          Str(<<"a">>))
\* two years old: 3% then 8% over two years
Slow ==
  FundRow(<<"5">>, Pct(<<"0">>), Pct(<<"1">>), Pct(<<"1">>), Pct(<<"2">>), Pct(<<"3">>),
          Pct(<<"8">>), Dashes, Str(<<"b">>))
\* 6% then 12.36% over two years, a 3-year figure that is no number
Odd ==
  FundRow(<<"6">>, Pct(<<"0">>), Pct(<<"1">>), Pct(<<"1">>), Pct(<<"2">>), Pct(<<"6">>),
          Pct(<<"1", "2", ".", "3", "6">>), Str(<<"x">>), Str(<<"a">>))

Without(row, columns) == [c \in DOMAIN row \ columns |-> row[c]]
Renamed(row, old, new) == [c \in (DOMAIN row \ {old}) \cup {new} |-> IF c = new THEN row[old] ELSE row[c]]

ZQ == <<"j", "i", "j", "i", "n", "_", "z", "q", ".", "t", "x", "t">>
HH == <<"j", "i", "j", "i", "n", "_", "h", "h", ".", "t", "x", "t">>
README == <<"r", "e", "a", "d", "m", "e", ".", "m", "d">>

BondFile == [columns |-> FundColumns, rows |-> {Steady, Gap, Wiped}]
MixedFile ==
  [columns |-> FundColumns \ {"jijinjingli", "jijingongsi"},
   rows |-> {Without(Young, {"jijinjingli", "jijingongsi"}),
             Without(Slow, {"jijinjingli", "jijingongsi"}),
             Without(Odd, {"jijinjingli", "jijingongsi"})}]
PaddedFile ==
  [columns |-> (FundColumns \ {"jin3nian"}) \cup {" jin3nian"},
   rows |-> {Renamed(Steady, "jin3nian", " jin3nian"), Renamed(Slow, "jin3nian", " jin3nian")}]
NoWeekFile == [columns |-> FundColumns \ {"jin1zhou"}, rows |-> {Without(Steady, {"jin1zhou"})}]
NoSinceFile == [columns |-> FundColumns \ {"chenglilai"}, rows |-> {Without(Slow, {"chenglilai"})}]
ZeroBytes == [columns |-> {}, rows |-> {}]

Dir(files) == [is_dir |-> TRUE, files |-> files]
RegularFile == [is_dir |-> FALSE, files |-> EmptyDict]

D2508 == <<"2", "0", "2", "5", ".", "0", "8">>
D2507 == <<"2", "0", "2", "5", ".", "0", "7">>
D2506 == <<"2", "0", "2", "5", ".", "0", "6">>
D2505 == <<"2", "0", "2", "5", ".", "0", "5">>
D2504 == <<"2", "0", "2", "5", ".", "0", "4">>
D2503 == <<"2", "0", "2", "5", ".", "0", "3">>
D2509 == <<"2", "0", "2", "5", ".", "0", "9">>
D259 == <<"2", "0", "2", "5", ".", "9">>
D2510 == <<"2", "0", "2", "5", ".", "1", "0">>
D2412 == <<"2", "0", "2", "4", ".", "1", "2">>
D250x == <<"2", "0", "2", "5", ".", "0", "x">>

FundDir1 ==
  (D2508 :> Dir((ZQ :> BondFile) @@ (HH :> MixedFile) @@ (README :> ZeroBytes)))
    @@ (D2507 :> Dir((ZQ :> PaddedFile)))
    @@ (D2506 :> Dir((ZQ :> NoWeekFile)))
    @@ (D2505 :> Dir(EmptyDict))
    @@ (D2504 :> Dir((ZQ :> BondFile) @@ (HH :> ZeroBytes)))
    @@ (D2503 :> Dir((HH :> NoSinceFile)))
    @@ (D2509 :> RegularFile)
    @@ (D250x :> Dir(EmptyDict))
\* the month before: 2025.08 is not there yet
FundDir0 == [item \in DOMAIN FundDir1 \ {D2508} |-> FundDir1[item]]
FundDirs == <<EmptyDict, FundDir0, FundDir1>>

\* data/stock lists the directory of SELECTED_DATE
StockDir1 == (D2508 :> Dir(EmptyDict))

\* the names directories and files appear under in data/stock and data/fund
StockItems == {D259, D2510, D2412, D250x}
FundItems == {D2510, D2412, D259}

\* data_date = None
NoDataDate == [some |-> FALSE, v |-> <<>>]

\* the calls made: every return threshold with every fund type and date,
\* and every filter with every other on the latest date
FundArgs ==
  [min_annual_return : {Whole(0), Whole(5), Whole(15)},
   min_consecutive_return : {Whole(0), Whole(4)},
   min_years_listed : {Whole(0)},
   fund_type : {QUANBU, <<"z", "q">>, <<"x", "x">>},
   fund_manager : {<<>>},
   fund_company : {<<>>},
   data_date : {NoDataDate} \cup {Some(d) : d \in {D2507, D2506, D2505, D2504, D2503, D2509, D2412}}]
  \cup
  [min_annual_return : {Whole(0), Whole(5)},
   min_consecutive_return : {Whole(0), Whole(4)},
   min_years_listed : {Whole(0), Whole(2)},
   fund_type : {QUANBU},
   fund_manager : {<<>>, <<"a">>},
   fund_company : {<<>>, <<"d">>},
   data_date : {NoDataDate}]

(***************************************************************************)
(* The state: the calendar, the data directory, the cache directory, the   *)
(* fields of the StockDataManager in use, and a record of the last call.   *)
(***************************************************************************)
VARIABLES
  today,         \* datetime.now().date(), as a day number
  world,         \* index into Worlds: what data/stock holds now
  cache,         \* user_data/cache: cache file path -> artifact
  data_manager,  \* the StockDataManager in use: selected_date, stock_data_instances,
                 \* filtered_codes, all_stock_info, loaded_types (_loaded_types) and
                 \* the history field merged (the datasets merged into
                 \* all_stock_info, in order)
  data_fund,     \* data/fund: item name -> directory (its files) or regular file
  data_stock,    \* the listing of data/stock: item name -> directory or regular file
  ops,           \* history: number of calls made so far
  last           \* history: the last call, its result and what it did

vars == <<today, world, cache, data_manager, data_fund, data_stock, ops, last>>

\* the fields of a manager out of a record st of the manager's methods
Manager(st, date) ==
  [selected_date |-> date, stock_data_instances |-> st.stock_data_instances,
   filtered_codes |-> st.filtered_codes, all_stock_info |-> st.all_stock_info,
   loaded_types |-> st.loaded_types, merged |-> st.merged]

\* the manager in use and the cache directory, as one value
Self ==
  [stock_data_instances |-> data_manager.stock_data_instances,
   filtered_codes |-> data_manager.filtered_codes, all_stock_info |-> data_manager.all_stock_info,
   loaded_types |-> data_manager.loaded_types, merged |-> data_manager.merged, cache |-> cache,
   events |-> <<>>]

Env == [world |-> world, today |-> today, selected_date |-> data_manager.selected_date]

\* the cache files of the request's instance keys, as they are in cache_dir
CacheFilesOf(cache_dir, date, req) ==
  LET files == {get_cache_file_path(date,
                   instance_key_of(req.selected_types[i],
                                   Get(req.sub_types, req.selected_types[i], NoSub))) :
                  i \in DOMAIN req.selected_types}
  IN  [f \in files \cap DOMAIN cache_dir |-> cache_dir[f]]

\* last: op, the call; req, its arguments; ret / df, what it returned;
\* raised, whether it ended in an exception; events, what it did; held, the
\* instance keys the manager held before it; before, the request's cache
\* files before it
NoCall ==
  [op |-> "none", req |-> NoRequest, ret |-> FALSE, df |-> EmptyTable, raised |-> FALSE,
   events |-> <<>>, held |-> {}, before |-> EmptyDict]

Init ==
  /\ today = 0
  /\ world = 1
  /\ cache = EmptyDict
  /\ data_manager = Manager(NewSelf(EmptyDict), SELECTED_DATE)
  /\ data_fund = FundDirs[Len(FundDirs)]
  /\ data_stock = StockDir1
  /\ ops = 0
  /\ last = NoCall

\* the same with data/fund still empty
InitFund ==
  /\ today = 0
  /\ world = 1
  /\ cache = EmptyDict
  /\ data_manager = Manager(NewSelf(EmptyDict), SELECTED_DATE)
  /\ data_fund = FundDirs[1]
  /\ data_stock = StockDir1
  /\ ops = 0
  /\ last = NoCall

\* the fields of the manager and the cache directory after a call
Becomes(st) ==
  /\ data_manager' = Manager(st, data_manager.selected_date)
  /\ cache' = st.cache

\* StockDataManager(selected_date = SELECTED_DATE)
NewManager ==
  /\ data_manager.stock_data_instances # EmptyDict
  /\ data_manager' = Manager(NewSelf(cache), SELECTED_DATE)
  /\ last' = NoCall
  /\ UNCHANGED <<data_fund, data_stock, today, world, cache, ops>>

\* data_manager.load_stock_data(stock_type, sub_type)
LoadStockData(stock_type, sub_type) ==
  LET req == Request(<<stock_type>>,
                     IF sub_type = NoSub THEN EmptyDict ELSE (stock_type :> sub_type),
                     {}, None, None)
      Returns(r) ==
        /\ Becomes(r.st)
        /\ last' = [op |-> "load_stock_data", req |-> req,
                    ret |-> r.ret, df |-> EmptyTable, raised |-> FALSE,
                    events |-> r.st.events,
                    held |-> DOMAIN data_manager.stock_data_instances,
                    before |-> CacheFilesOf(cache, data_manager.selected_date, req)]
  IN  /\ ops < MaxOps
      /\ Returns(load_stock_data(Self, Env, stock_type, sub_type))
      /\ ops' = ops + 1
      /\ UNCHANGED <<data_fund, data_stock, today, world>>

\* data_manager.filter_stocks(**req)
FilterStocks(req) ==
  LET Returns(r) ==
        /\ Becomes(r.st)
        /\ last' = [op |-> "filter_stocks", req |-> req, ret |-> r.df # EmptyTable,
                    df |-> r.df, raised |-> FALSE, events |-> r.st.events,
                    held |-> DOMAIN data_manager.stock_data_instances,
                    before |-> CacheFilesOf(cache, data_manager.selected_date, req)]
  IN  /\ ops < MaxOps
      /\ Returns(filter_stocks(Self, Env, req))
      /\ ops' = ops + 1
      /\ UNCHANGED <<data_fund, data_stock, today, world>>

\* stock_filter(**req, selected_date = SELECTED_DATE) of stock_filter_new.py
\* (its manager is gone when it returns; the cache files it wrote stay)
StockFilterNew(req) ==
  LET Returns(r) ==
        /\ cache' = r.st.cache
        /\ last' = [op |-> "stock_filter_new", req |-> req, ret |-> r.df # EmptyTable,
                    df |-> r.df, raised |-> FALSE, events |-> r.st.events, held |-> {},
                    before |-> CacheFilesOf(cache, SELECTED_DATE, req)]
  IN  /\ Returns(stock_filter_new(cache, [Env EXCEPT !.selected_date = SELECTED_DATE], req))
      /\ UNCHANGED <<data_fund, data_stock, today, world, data_manager, ops>>

\* stock_filter(**req, selected_date = SELECTED_DATE) of stock_filter.py
StockFilter(req) ==
  LET Returns(r) ==
        last' = [op |-> "stock_filter", req |-> req, ret |-> r.df # EmptyTable,
                 df |-> r.df, raised |-> r.raised, events |-> <<>>, held |-> {},
                 before |-> EmptyDict]
  IN  /\ Returns(Answers[world][SELECTED_DATE][req])
      /\ UNCHANGED <<data_fund, data_stock, today, world, cache, data_manager, ops>>

\* midnight
DayPasses ==
  /\ today < MaxDay
  /\ today' = today + 1
  /\ last' = NoCall
  /\ UNCHANGED <<data_fund, data_stock, world, cache, data_manager, ops>>

\* upstream replaces the files of the data directory
Publish ==
  /\ world < Len(Worlds)
  /\ world' = world + 1
  /\ last' = NoCall
  /\ UNCHANGED <<data_fund, data_stock, today, cache, data_manager, ops>>

\* a cache file is damaged on disk (truncated); its mtime stays
CorruptCache(cache_file) ==
  /\ cache_file \in DOMAIN cache
  /\ ~cache[cache_file].corrupt
  /\ cache' = [cache EXCEPT ![cache_file] = [@ EXCEPT !.corrupt = TRUE, !.data = EmptyDict]]
  /\ last' = NoCall
  /\ UNCHANGED <<data_fund, data_stock, today, world, data_manager, ops>>

Next ==
  \/ NewManager
  \/ \E a \in LoadArgs : LoadStockData(a[1], a[2])
  \/ \E req \in Requests : FilterStocks(req)
  \/ DayPasses
  \/ Publish
  \/ \E cache_file \in DOMAIN cache : CorruptCache(cache_file)

\* a caller that keeps a StockDataManager, and what happens around it
Spec == Init /\ [][Next]_vars

NextFilter ==
  \/ \E req \in Requests : StockFilterNew(req)
  \/ \E req \in Requests : StockFilter(req)
  \/ Publish

\* callers of the two stock_filter functions
SpecFilter == Init /\ [][NextFilter]_vars

\* what fund_filter returns for each data/fund of FundDirs and each args
FundAnswers ==
  [i \in DOMAIN FundDirs |-> [args \in FundArgs |-> fund_filter(FundDirs[i], args)]]

\* fund_filter(**args)
FundFilter(args) ==
  LET Returns(r) ==
        last' = [op |-> "fund_filter", args |-> args, raised |-> r.raised, df |-> r.df,
                 computed |-> r.computed]
  IN  /\ \E i \in DOMAIN FundDirs : data_fund = FundDirs[i] /\ Returns(FundAnswers[i][args])
      /\ UNCHANGED <<data_fund, data_stock, today, world, cache, data_manager, ops>>

\* upstream adds the next month of fund files
PublishFunds ==
  /\ \E i \in 1..(Len(FundDirs) - 1) : data_fund = FundDirs[i] /\ data_fund' = FundDirs[i + 1]
  /\ last' = NoCall
  /\ UNCHANGED <<data_stock, today, world, cache, data_manager, ops>>

NextFund ==
  \/ \E args \in FundArgs : FundFilter(args)
  \/ PublishFunds

\* callers of fund_filter
SpecFund == InitFund /\ [][NextFund]_vars

\* get_available_dates()
GetAvailableDates ==
  /\ last' = [op |-> "get_available_dates", dates |-> get_available_dates(data_stock)]
  /\ UNCHANGED <<data_fund, data_stock, today, world, cache, data_manager, ops>>

\* get_available_fund_dates()
GetAvailableFundDates ==
  /\ last' = [op |-> "get_available_fund_dates", dates |-> get_available_fund_dates(data_fund)]
  /\ UNCHANGED <<data_fund, data_stock, today, world, cache, data_manager, ops>>

\* mkdir data/stock/<item>, or a regular file of that name appears
MakeStockItem(item, is_dir) ==
  /\ item \notin DOMAIN data_stock
  /\ data_stock' = Put(data_stock, item, IF is_dir THEN Dir(EmptyDict) ELSE RegularFile)
  /\ last' = NoCall
  /\ UNCHANGED <<data_fund, today, world, cache, data_manager, ops>>

\* mkdir data/fund/<item>, or a regular file of that name appears
MakeFundItem(item, is_dir) ==
  /\ item \notin DOMAIN data_fund
  /\ data_fund' = Put(data_fund, item, IF is_dir THEN Dir(EmptyDict) ELSE RegularFile)
  /\ last' = NoCall
  /\ UNCHANGED <<data_stock, today, world, cache, data_manager, ops>>

NextDates ==
  \/ GetAvailableDates
  \/ GetAvailableFundDates
  \/ \E item \in StockItems, is_dir \in BOOLEAN : MakeStockItem(item, is_dir)
  \/ \E item \in FundItems, is_dir \in BOOLEAN : MakeFundItem(item, is_dir)

\* callers of the two date listings, while directories appear
SpecDates == Init /\ [][NextDates]_vars

\* raw identifiers of the supported shapes: an optional exchange prefix and
\* the digits of a code, bare ("600519", "SZ000001"), followed by a name
\* ("SH600519.N") or after a comma ("r,SH600519")
Prefixes == {<<>>, <<"S", "H">>, <<"S", "Z">>}
CodeDigits ==
  {<<"5">>, <<"1", "9">>, <<"0", "0", "1">>, <<"0", "5", "1", "9">>, <<"0", "0", "5", "1", "9">>,
   <<"6", "0", "0", "5", "1", "9">>, <<"0", "0", "0", "0", "0", "1">>}
Forms == {"bare", "name", "comma"}
Shaped(form, prefix, digits) ==
  CASE form = "bare" -> Str(prefix \o digits)
    [] form = "name" -> Str(prefix \o digits \o <<".", "N", "1">>)
    [] OTHER -> Str(<<"r", ",">> \o prefix \o digits)

\* raw values of no supported shape
Irregular ==
  {NaN, Str(<<>>), Str(<<"N">>), Str(<<"-", "-">>), Str(<<"N", ".", "5">>), Str(<<"r", ",", "S", "H">>),
   Str(<<"'", "6", "0", "0", "5", "1", "9">>), Str(<<" ", "5", "1", "9", " ">>),
   Num(<<"6", "0", "0", "5", "1", "9">>), Num(<<"1", ".", "0">>)}

\* the code column of a one-row table
OneCell(cell) == [columns |-> <<"daima">>, rows |-> <<("daima" :> cell)>>]

\* BaseData.clean_code(raw)
CleanCode(raw, digits) ==
  /\ last' = [op |-> "clean_code", raw |-> raw, digits |-> digits, code |-> clean_code(raw),
              codes |-> StockData_extract_stock_codes(OneCell(raw), "daima")]
  /\ UNCHANGED <<data_fund, data_stock, today, world, cache, data_manager, ops>>

\* extract_stock_codes(pd.Series([raw])) of stock_filter.py
ExtractStockCodes(raw, digits) ==
  /\ last' = [op |-> "extract_stock_codes", raw |-> raw, digits |-> digits,
              code |-> code_of_value(raw), codes |-> extract_stock_codes(OneCell(raw), "daima")]
  /\ UNCHANGED <<data_fund, data_stock, today, world, cache, data_manager, ops>>

\* the values the callers pass, each with the digits it was written from
RawValues ==
  {[raw |-> Shaped(form, prefix, digits), digits |-> digits] :
     form \in Forms, prefix \in Prefixes, digits \in CodeDigits}
    \cup {[raw |-> cell, digits |-> <<>>] : cell \in Irregular}

NextCode ==
  \/ \E value \in RawValues : CleanCode(value.raw, value.digits)
  \/ \E value \in RawValues : ExtractStockCodes(value.raw, value.digits)

\* callers of the two normalizers
SpecCode == Init /\ [][NextCode]_vars

(***************************************************************************)
(* StockData.load on its own: one category, one file.  A file has the code *)
(* column 代码 with the codes 000001..000003 and a choice of the columns   *)
(* the categories read; a cell holds the number of its column and of its  *)
(* row, padded with a blank, or nothing.                                   *)
(***************************************************************************)
FileColumns ==
  <<"ROE", "pingjunROE", "dangqianROE", "beishangchigu", "koufeiPE",
    "guxi", "zuixinguxi", "pingjunguxi", "chigubi", "chiyoushizhi.yi", "PE", "PB">>
ColumnNumber(column) == CHOOSE i \in DOMAIN FileColumns : FileColumns[i] = column
FileCodes == <<Str(<<"S", "H", "1", ".", "A">>), Num(<<"2">>), Str(<<"'", "3">>)>>
FileCell(column, i) ==
  IF (ColumnNumber(column) + i) % 4 = 0 THEN NaN
  ELSE Str(<<" ">> \o Digits(ColumnNumber(column)) \o <<".">> \o Digits(i))
\* the file with the given columns, in the order of FileColumns
FileOf(columns) ==
  [columns |-> <<"daima">> \o SelectSeq(FileColumns, LAMBDA c : c \in columns),
   rows |-> [i \in DOMAIN FileCodes |->
               [c \in {"daima"} \cup columns |->
                  IF c = "daima" THEN FileCodes[i] ELSE FileCell(c, i)]]]

\* the columns a file of the category may or may not have
OptionalColumns ==
  [beishangzijinchigu |-> {"chigubi", "chiyoushizhi.yi", "PE"},
   ROEpaiming |-> {"ROE", "koufeiPE", "PB"},
   ROElianxuchao15 |-> {"ROE", "pingjunROE", "dangqianROE", "beishangchigu", "koufeiPE"},
   guxilvpaiming |-> {"guxi", "zuixinguxi", "pingjunguxi", "ROE"}]

\* the sub-variants of a category (None for a category without)
SubTypesOf(stock_type) ==
  IF STOCK_DATA_TYPES[stock_type].sub_types = <<>> THEN {NoSub}
  ELSE Keys(STOCK_DATA_TYPES[stock_type].sub_types)

\* the datasets to load: category, sub-variant and the content of its file
LoadInputs ==
  UNION {{[stock_type |-> t, sub_type |-> s, df |-> FileOf(columns)] :
            s \in SubTypesOf(t), columns \in SUBSET OptionalColumns[t]} :
         t \in DOMAIN STOCK_DATA_TYPES}

\* StockDataFactory.get_stock_data(...).load() with the file in place
LoadAnswers ==
  [input \in LoadInputs |->
     LET made(obj) == load(obj, STOCK_DATA_TYPES[input.stock_type],
                           (obj.file_path :> input.df))
     IN  made(get_stock_data(input.stock_type, input.sub_type, DATA_DIR, SELECTED_DATE).obj)]

\* stock_data = StockDataFactory.get_stock_data(...); stock_data.load()
LoadFile(input) ==
  /\ last' = [op |-> "load", stock_type |-> input.stock_type, sub_type |-> input.sub_type,
              df |-> input.df, stock_data |-> LoadAnswers[input]]
  /\ UNCHANGED <<data_fund, data_stock, today, world, cache, data_manager, ops>>

NextLoad == \E input \in LoadInputs : LoadFile(input)

\* callers of StockData.load
SpecLoad == Init /\ [][NextLoad]_vars

(***************************************************************************)
(* StockDataManager.search_stock.  remengupiao 热门股票, jin1tian 近1天:    *)
(* a category the model's catalogue does not carry and the data directory  *)
(* holds no file of, so that loading it fails and changes nothing.         *)
(***************************************************************************)
UpperCase == <<"A", "B", "C", "D", "H", "K", "M", "S", "Z">>
LowerCase == <<"a", "b", "c", "d", "h", "k", "m", "s", "z">>

\* str.lower
lower(s) ==
  [i \in DOMAIN s |->
     IF s[i] \in Range(UpperCase)
       THEN LowerCase[CHOOSE j \in DOMAIN UpperCase : UpperCase[j] = s[i]]
     ELSE s[i]]

\* StockDataFactory.get_all_stock_types: the keys of the catalogue, in the
\* order of the source
get_all_stock_types ==
  <<"beishangzijinchigu", "ROEpaiming", "ROElianxuchao15", "guxilvpaiming">>

\* StockDataFactory.get_sub_types
get_sub_types(stock_type) ==
  [i \in DOMAIN STOCK_DATA_TYPES[stock_type].sub_types |->
     STOCK_DATA_TYPES[stock_type].sub_types[i][1]]

\* stock_data_dict.get('has_sub_types', False): no entry of the catalogue
\* has the key
has_sub_types(stock_data_dict) == FALSE

\* reload_all_data of search_stock
reload_all_data(st) ==
  [st EXCEPT !.stock_data_instances = EmptyDict, !.filtered_codes = EmptyDict]

initial_types ==
  << <<"beishangzijinchigu", NoSub>>, <<"ROEpaiming", NoSub>>, <<"remengupiao", "jin1tian">> >>

\* the entries of the registry the search term matches
matching_codes(all_stock_info, search_term) ==
  {code \in DOMAIN all_stock_info :
     \/ IsInfix(lower(search_term), lower(Get(all_stock_info[code], "mingcheng", <<>>)))
     \/ lower(search_term) = lower(code)}

\* the loop over initial_types; candidates are the matches of the registry
\* at the break (the first of them in the dict's order is the stock found;
\* the registry of the model keeps no order, so any of them may be)
RECURSIVE find_stock(_, _, _, _)
find_stock(st, env, types, search_term) ==
  IF types = <<>> THEN [st |-> st, candidates |-> {}]
  ELSE
    LET searched(loaded) ==
          IF matching_codes(loaded.all_stock_info, search_term) # {}
            THEN [st |-> loaded,
                  candidates |-> matching_codes(loaded.all_stock_info, search_term)]
          ELSE find_stock(loaded, env, Tail(types), search_term)
    IN  searched(load_stock_data(st, env, Head(types)[1], Head(types)[2]).st)

\* the datasets the category loop of search_stock visits, each with the
\* sub_type it passes to load_stock_data (a display name is the pair)
RECURSIVE visits(_)
visits(stock_types) ==
  IF stock_types = <<>> THEN <<>>
  ELSE
    LET stock_type == Head(stock_types)
    IN  (IF has_sub_types(STOCK_DATA_TYPES[stock_type])
           THEN [i \in DOMAIN get_sub_types(stock_type) |->
                   <<stock_type, get_sub_types(stock_type)[i]>>]
         ELSE << <<stock_type, NoSub>> >>)
          \o visits(Tail(stock_types))

\* the category loop of search_stock
RECURSIVE check_categories(_, _, _, _, _)
check_categories(st, env, to_visit, stock_code, categories) ==
  IF to_visit = <<>> THEN [st |-> st, categories |-> categories]
  ELSE
    LET instance_key == instance_key_of(Head(to_visit)[1], Head(to_visit)[2])
        checked(r) ==
          check_categories(r.st, env, Tail(to_visit), stock_code,
                           IF /\ r.ret
                              /\ Has(r.st.filtered_codes, instance_key)
                              /\ stock_code \in r.st.filtered_codes[instance_key]
                             THEN Append(categories, Head(to_visit))
                           ELSE categories)
    IN  checked(load_stock_data(
                  [st EXCEPT !.stock_data_instances = Del(@, instance_key),
                             !.filtered_codes = Del(@, instance_key)],
                  env, Head(to_visit)[1], Head(to_visit)[2]))

\* basic_info of search_stock
basic_info(all_stock_info, stock_code) ==
  [gupiaodaima |-> stock_code,
   gupiaomingcheng |-> Get(Get(all_stock_info, stock_code, EmptyDict), "mingcheng", <<>>),
   hangye |-> Get(Get(all_stock_info, stock_code, EmptyDict), "hangye", <<>>),
   dangqianROE |-> Get(Get(all_stock_info, stock_code, EmptyDict), "dangqianROE", <<>>),
   koufeiPE |-> Get(Get(all_stock_info, stock_code, EmptyDict), "koufeiPE", <<>>),
   PB |-> Get(Get(all_stock_info, stock_code, EmptyDict), "PB", <<>>),
   guxilv |-> Get(Get(all_stock_info, stock_code, EmptyDict), "guxilv", <<>>),
   jinnianlai |-> Get(Get(all_stock_info, stock_code, EmptyDict), "jinnianlai", <<>>)]

\* StockDataManager.search_stock: what the call may return, one result for
\* each stock that may be the one found; ok = FALSE is stock_info None
search_stock(st, env, search_term) ==
  LET result(found, stock_code) ==
        LET returned(r) ==
              [ok |-> TRUE, stock_info |-> basic_info(found.st.all_stock_info, stock_code),
               categories |-> r.categories, st |-> r.st]
        IN  returned(check_categories(found.st, env, visits(get_all_stock_types),
                                      stock_code, <<>>))
      after_find(found) ==
        IF found.candidates = {}
          THEN {[ok |-> FALSE, stock_info |-> EmptyDict, categories |-> <<>>, st |-> found.st]}
        ELSE {result(found, stock_code) : stock_code \in found.candidates}
  IN  after_find(find_stock(reload_all_data(st), env, initial_types, search_term))

\* what the callers search for: codes, a name in lower case, a name no
\* stock has
SearchTerms ==
  {<<"0", "0", "0", "0", "0", "1">>, <<"0", "0", "0", "0", "0", "3">>,
   <<"0", "0", "0", "0", "0", "4">>, <<"c">>, <<"z">>}

\* data_manager.search_stock(search_term)
SearchStock(search_term) ==
  LET Returns(r) ==
        /\ Becomes(r.st)
        /\ last' = [op |-> "search_stock", search_term |-> search_term, ret |-> r.ok,
                    stock_info |-> r.stock_info, categories |-> r.categories,
                    events |-> r.st.events,
                    held |-> DOMAIN data_manager.stock_data_instances, before |-> cache]
  IN  /\ ops < MaxOps
      /\ \E r \in search_stock(Self, Env, search_term) : Returns(r)
      /\ ops' = ops + 1
      /\ UNCHANGED <<data_fund, data_stock, today, world>>

NextSearch ==
  \/ \E search_term \in SearchTerms : SearchStock(search_term)
  \/ \E a \in LoadArgs : LoadStockData(a[1], a[2])
  \/ DayPasses
  \/ Publish

\* a caller that searches for stocks on the manager it keeps
SpecSearch == Init /\ [][NextSearch]_vars

\* what a cache file written by another version of the program unpickles
\* to: an object without the attribute stock_codes
ForeignObjects == {[is_loaded |-> TRUE], [is_loaded |-> FALSE]}

\* a cache file is replaced, today, by one another version of the program
\* wrote
ForeignCache(cache_file, object) ==
  /\ cache_file \in DOMAIN cache
  /\ "stock_codes" \in DOMAIN cache[cache_file].data
  /\ cache' = [cache EXCEPT ![cache_file] = [mtime |-> today, corrupt |-> FALSE, data |-> object]]
  /\ last' = NoCall
  /\ UNCHANGED <<data_fund, data_stock, today, world, data_manager, ops>>

NextCache ==
  \/ NewManager
  \/ \E a \in LoadArgs : LoadStockData(a[1], a[2])
  \/ DayPasses
  \/ Publish
  \/ \E cache_file \in DOMAIN cache : CorruptCache(cache_file)
  \/ \E cache_file \in DOMAIN cache : \E object \in ForeignObjects : ForeignCache(cache_file, object)

\* a caller that keeps a StockDataManager over a cache directory other
\* versions of the program write to as well
SpecCache == Init /\ [][NextCache]_vars

(***************************************************************************)
(* Properties                                                              *)
(***************************************************************************)

\* the instance keys a request names, in request order
KeysOf(req) ==
  [i \in DOMAIN req.selected_types |->
     instance_key_of(req.selected_types[i], Get(req.sub_types, req.selected_types[i], NoSub))]

\* the codes of a result table
CodesOf(df) == {row["gupiaodaima"] : row \in df}

\* the manager holds every dataset the request names
AllHeld(req) ==
  \A i \in DOMAIN KeysOf(req) : Has(data_manager.stock_data_instances, KeysOf(req)[i])

\* the codes that are members of every one of the given code sets
MembersOfAll(code_sets) == {code \in UNION code_sets : \A s \in code_sets : code \in s}

\* the call recorded in last was a filter_stocks call whose categories all loaded
FilteredAllLoaded ==
  /\ last.op = "filter_stocks"
  /\ last.req.selected_types # <<>>
  /\ AllHeld(last.req)

\* C1: a filter_stocks request without thresholds and without industry
\* filter, whose categories (one, two, three or more) all load, returns
\* exactly the codes that are members of every requested category's code
\* set.
C1_ExactIntersection ==
  (/\ FilteredAllLoaded
   /\ ~last.req.roe_filter.some /\ ~last.req.dividend_filter.some
   /\ last.req.industry_filter = {})
    => CodesOf(last.df)
         = MembersOfAll({data_manager.filtered_codes[k] : k \in Range(KeysOf(last.req))})

\* the category (with the sub-variant the request gives it) does not load
\* from the data directory w: it is not defined, its sub-variant is unknown,
\* its source file is missing or holds no rows
FailsToLoad(w, date, stock_type, sub_type) ==
  \/ stock_type \notin DOMAIN STOCK_DATA_TYPES
  \/ ~Loaded[w][date][<<stock_type, sub_type>>].is_loaded

\* the call recorded in last obtained the dataset of the key, from the cache
\* or from the source file
Obtained(key) ==
  \E i \in DOMAIN last.events :
    last.events[i].key = key /\ last.events[i].e \in {"hit", "write"}

\* C2: if one of the requested categories fails to load, the stock filter
\* returns an empty table.  For stock_filter of stock_filter_new.py a
\* category fails when its load_stock_data call obtains no dataset; for
\* stock_filter of stock_filter.py, which reads the source files on every
\* call, when the data directory does not yield it.
C2_FailClosed ==
  /\ (/\ last.op = "stock_filter_new"
      /\ \E k \in Range(KeysOf(last.req)) : ~Obtained(k))
       => last.df = EmptyTable
  /\ (/\ last.op = "stock_filter"
      /\ \E i \in DOMAIN last.req.selected_types :
           FailsToLoad(world, SELECTED_DATE, last.req.selected_types[i],
                       Get(last.req.sub_types, last.req.selected_types[i], NoSub)))
       => last.df = EmptyTable

\* the first value along the chain of fields that the entry holds and that
\* parses as a number
RECURSIVE FirstParseable(_, _)
FirstParseable(info, fields) ==
  IF fields = <<>> THEN None
  ELSE IF Has(info, Head(fields)) /\ safe_get_numeric(info[Head(fields)]).some
    THEN safe_get_numeric(info[Head(fields)])
  ELSE FirstParseable(info, Tail(fields))

\* the registry entry of a code (empty when the registry has none)
Entry(code) == Get(data_manager.all_stock_info, code, EmptyDict)

\* the codes that are members of every code set the last request names
Intersection ==
  MembersOfAll({data_manager.filtered_codes[k] : k \in Range(KeysOf(last.req))})

ROEChain == <<"pingjunROE", "dangqianROE", "ROE">>

PassesROE(code) ==
  /\ FirstParseable(Entry(code), ROEChain).some
  /\ FirstParseable(Entry(code), ROEChain).v >= last.req.roe_filter.v

\* C3: with an ROE threshold, a code of the intersection is in the result
\* only if the first parseable value along average ROE -> current ROE -> ROE
\* of its registry entry exists and is >= the threshold, and (no other
\* filter being set) it is in the result whenever that is so.
C3_ROEChain ==
  (FilteredAllLoaded /\ last.req.roe_filter.some)
    => \A code \in Intersection :
         /\ code \in CodesOf(last.df) => PassesROE(code)
         /\ (/\ PassesROE(code)
             /\ ~last.req.dividend_filter.some
             /\ last.req.industry_filter = {}) => code \in CodesOf(last.df)

\* an ROE-filtered call kept a code on its current ROE, the average being
\* absent or unparseable, and dropped a code on its average ROE although
\* its current ROE reaches the threshold
C3_Witness ==
  /\ FilteredAllLoaded /\ last.req.roe_filter.some
  /\ \E code \in Intersection \cap CodesOf(last.df) :
       /\ ~FirstParseable(Entry(code), <<"pingjunROE">>).some
       /\ FirstParseable(Entry(code), <<"dangqianROE">>).some
  /\ \E code \in Intersection \ CodesOf(last.df) :
       /\ FirstParseable(Entry(code), <<"pingjunROE">>).some
       /\ FirstParseable(Entry(code), <<"dangqianROE">>).some
       /\ FirstParseable(Entry(code), <<"dangqianROE">>).v >= last.req.roe_filter.v

\* the call recorded in last was a call of one of the two stock_filter functions
FilterCalled == last.op \in {"stock_filter_new", "stock_filter"}

\* the codes of the rows the last call returned
ResultCodes ==
  IF last.op = "stock_filter" THEN {row["gupiaodaima"].s : row \in last.df}
  ELSE CodesOf(last.df)

\* the datasets of the last request and the registry merged from them: for
\* stock_filter_new as its manager obtained them (from the cache files it
\* found, or the source files), for stock_filter as the source files give them
Requested ==
  stock_filter_new(IF last.op = "stock_filter_new" THEN last.before ELSE EmptyDict,
                   [world |-> world, today |-> today, selected_date |-> SELECTED_DATE],
                   Request(last.req.selected_types, last.req.sub_types, {}, None, None)).st

RequestedAll ==
  \A k \in Range(KeysOf(last.req)) : Has(Requested.stock_data_instances, k)

RequestedIntersection ==
  MembersOfAll({Requested.filtered_codes[k] : k \in Range(KeysOf(last.req))})

DividendChain == <<"pingjunguxi", "guxilv", "guxi">>

PassesDividend(code) ==
  LET v == FirstParseable(Get(Requested.all_stock_info, code, EmptyDict), DividendChain)
  IN  v.some /\ v.v >= last.req.dividend_filter.v

\* C4: with a dividend threshold, in both stock filter implementations, a
\* code of the intersection is in the result only if the first parseable
\* value along average dividend -> latest dividend -> generic dividend that
\* the requested datasets give it exists and is >= the threshold, and (no
\* other filter being set) it is in the result whenever that is so.
C4_DividendChain ==
  (FilterCalled /\ last.req.dividend_filter.some /\ RequestedAll)
    => \A code \in RequestedIntersection :
         /\ code \in ResultCodes => PassesDividend(code)
         /\ (/\ PassesDividend(code)
             /\ ~last.req.roe_filter.some
             /\ last.req.industry_filter = {}) => code \in ResultCodes

\* the industry a result row shows, empty when it shows none
IndustryOf(row) ==
  IF last.op = "stock_filter"
    THEN IF truthy(row["suoshuhangye"]) THEN str(row["suoshuhangye"]) ELSE <<>>
  ELSE row["hangye"]

\* C5: with a non-empty industry allow-list, in both stock filter
\* implementations, every row of the result has a known industry that is a
\* member of the list.
C5_IndustryAllowList ==
  (FilterCalled /\ last.req.industry_filter # {})
    => \A row \in last.df :
         IndustryOf(row) # <<>> /\ IndustryOf(row) \in last.req.industry_filter

\* the datasets merged into the registry of the manager, in merge order
MergedData ==
  [i \in DOMAIN data_manager.merged |->
     data_manager.stock_data_instances[data_manager.merged[i]]]

\* what a dataset supplies for a field of a code (empty when nothing): a
\* column of its extra_data, else the field of its stock_info entry; a
\* dataset without stock_info is not merged at all
Supplies(stock_data, code, field) ==
  LET stock_info == get_data(stock_data, "stock_info")
      extra_data == get_data(stock_data, "extra_data")
  IN  IF stock_info = EmptyDict THEN <<>>
      ELSE IF Has(extra_data, field) /\ Get(extra_data[field], code, <<>>) # <<>>
        THEN extra_data[field][code]
      ELSE IF Has(stock_info, code) THEN Get(stock_info[code], field, <<>>)
      ELSE <<>>

\* the merged datasets that supply a non-empty value for the field of the code
Suppliers(code, field) ==
  {i \in DOMAIN MergedData : Supplies(MergedData[i], code, field) # <<>>}

Least(S) == CHOOSE i \in S : \A j \in S : i <= j
Greatest(S) == CHOOSE i \in S : \A j \in S : i >= j

FirstSupplied(code, field) ==
  IF Suppliers(code, field) = {} THEN <<>>
  ELSE Supplies(MergedData[Least(Suppliers(code, field))], code, field)

LastSupplied(code, field) ==
  IF Suppliers(code, field) = {} THEN <<>>
  ELSE Supplies(MergedData[Greatest(Suppliers(code, field))], code, field)

\* the codes and the fields the registry or a merged dataset knows
KnownCodes ==
  (DOMAIN data_manager.all_stock_info)
    \cup UNION {DOMAIN get_data(MergedData[i], "stock_info") : i \in DOMAIN MergedData}

KnownFields ==
  UNION {DOMAIN data_manager.all_stock_info[code] : code \in DOMAIN data_manager.all_stock_info}
    \cup UNION {DOMAIN get_data(MergedData[i], "extra_data") : i \in DOMAIN MergedData}
    \cup UNION {UNION {DOMAIN get_data(MergedData[i], "stock_info")[code] :
                         code \in DOMAIN get_data(MergedData[i], "stock_info")} :
                  i \in DOMAIN MergedData}

\* the registry's value of a field of a code (empty when it has none)
Registered(code, field) == Get(Entry(code), field, <<>>)

\* name and industry are the first non-empty value the merged datasets
\* supply, every metric the last
FirstAndLastWriter ==
  \A code \in KnownCodes : \A field \in KnownFields :
    Registered(code, field)
      = IF field \in {"mingcheng", "hangye"} THEN FirstSupplied(code, field)
        ELSE LastSupplied(code, field)

\* the manager of the next state is the manager of this state, with the
\* datasets it has merged since
SameManager ==
  /\ Len(data_manager'.merged) >= Len(data_manager.merged)
  /\ SubSeq(data_manager'.merged, 1, Len(data_manager.merged)) = data_manager.merged

\* a name or industry the registry holds stays what it is
NamesStay ==
  SameManager
    => \A code \in DOMAIN data_manager.all_stock_info :
         \A field \in {"mingcheng", "hangye"} :
           Registered(code, field) # <<>>
             => Get(data_manager'.all_stock_info[code], field, <<>>) = Registered(code, field)

\* C6: after any sequence of merges into the registry, the name and the
\* industry of every code are the first non-empty value supplied by the
\* merged datasets, in merge order, and never change afterwards; every metric
\* is the non-empty value supplied by the most recently merged dataset that
\* carries it for the code.
C6_RegistryMerge == [](FirstAndLastWriter) /\ [][NamesStay]_vars

\* the registry holds a code whose name two merged datasets supply
\* differently and one of whose metrics two merged datasets supply differently
C6_Witness ==
  \E code \in DOMAIN data_manager.all_stock_info :
    /\ \E i, j \in Suppliers(code, "mingcheng") :
         Supplies(MergedData[i], code, "mingcheng") # Supplies(MergedData[j], code, "mingcheng")
    /\ \E field \in KnownFields \ {"mingcheng", "hangye"} :
         \E i, j \in Suppliers(code, field) :
           Supplies(MergedData[i], code, field) # Supplies(MergedData[j], code, field)

\* the call recorded in last was a load_stock_data call; its key, its cache
\* file, the artifact in the file before the call, and what the source file
\* parses to
LoadCalled == last.op = "load_stock_data"
LoadedType == last.req.selected_types[1]
LoadedSubType == Get(last.req.sub_types, LoadedType, NoSub)
LoadedKey == instance_key_of(LoadedType, LoadedSubType)
CacheFile == get_cache_file_path(data_manager.selected_date, LoadedKey)
ArtifactBefore == last.before[CacheFile]
FreshParse == Loaded[world][data_manager.selected_date][<<LoadedType, LoadedSubType>>]

\* the call did e ("hit", "remove", "parse", "write") for its key
Did(e) == \E i \in DOMAIN last.events : last.events[i] = Event(e, LoadedKey)

\* the call was made on a manager that did not hold the key, and found an
\* artifact for it
LoadedWithArtifact ==
  /\ LoadCalled
  /\ LoadedKey \notin last.held
  /\ CacheFile \in DOMAIN last.before

\* the call parsed the source file, and the manager holds what the parse
\* gave (nothing, when the parse failed)
ParsedAfresh ==
  /\ ~Did("hit")
  /\ Did("parse")
  /\ last.ret <=> FreshParse.is_loaded
  /\ last.ret => data_manager.stock_data_instances[LoadedKey] = FreshParse
  /\ ~last.ret => ~Has(data_manager.stock_data_instances, LoadedKey)

\* C7: load_stock_data on a manager that does not hold the key (a newly
\* constructed one in particular): a readable artifact written today is used
\* and the source file is not parsed; an artifact written on an earlier day
\* is a miss, the source file is parsed, and what the manager then holds is
\* the fresh parse, never the stale content.
C7_CacheFreshness ==
  LoadedWithArtifact
    => /\ (ArtifactBefore.mtime = today /\ ~ArtifactBefore.corrupt)
            => /\ Did("hit") /\ ~Did("parse") /\ last.ret
               /\ data_manager.stock_data_instances[LoadedKey] = ArtifactBefore.data
       /\ ArtifactBefore.mtime # today => ParsedAfresh

\* a newly constructed manager met an artifact of an earlier day whose
\* content differs from what the source file now parses to, and loaded
C7_Witness ==
  /\ LoadedWithArtifact /\ last.held = {}
  /\ ArtifactBefore.mtime < today /\ ~ArtifactBefore.corrupt
  /\ last.ret
  /\ ArtifactBefore.data # data_manager.stock_data_instances[LoadedKey]

\* the corrupt artifact is gone, and the source file was parsed afresh
Recovered ==
  /\ ~last.raised
  /\ Did("remove")
  /\ CacheFile \in DOMAIN cache => ~cache[CacheFile].corrupt
  /\ ParsedAfresh

\* C8 as stated: whenever the artifact of the key exists, was written today
\* and cannot be deserialized, load_stock_data does not raise, deletes the
\* artifact and parses the source file afresh.
C8_AnyManager ==
  (/\ LoadCalled
   /\ CacheFile \in DOMAIN last.before
   /\ ArtifactBefore.mtime = today /\ ArtifactBefore.corrupt)
    => Recovered

\* C8, amended: on a manager that does not already hold the key in memory,
\* when the artifact of the key exists, was written today and cannot be
\* deserialized, load_stock_data does not raise, deletes the artifact and
\* parses the source file afresh; the result of the parse is what the
\* manager holds afterwards.
C8_CorruptRecovery ==
  (/\ LoadedWithArtifact
   /\ ArtifactBefore.mtime = today /\ ArtifactBefore.corrupt)
    => Recovered

\* a manager that did not hold the key met a corrupt artifact of today and
\* loaded the dataset from the source file
C8_Witness ==
  /\ LoadedWithArtifact
  /\ ArtifactBefore.mtime = today /\ ArtifactBefore.corrupt
  /\ last.ret /\ Did("remove") /\ Did("write")

RECURSIVE RebuiltRegistry(_, _)
RebuiltRegistry(registry, instance_keys) ==
  IF instance_keys = <<>> THEN registry
  ELSE RebuiltRegistry(
         update_all_stock_info(registry,
                               data_manager.stock_data_instances[Head(instance_keys)]),
         Tail(instance_keys))

\* what the last request returns from a registry that holds only the data of
\* the categories it names
AnswerFromOwnData ==
  filter_stocks([Self EXCEPT !.all_stock_info = RebuiltRegistry(EmptyDict, KeysOf(last.req))],
                Env, last.req).df

\* C10: a filter_stocks call is answered from a registry that holds only
\* data merged from the categories the request names: what an earlier call
\* on the same manager merged for other categories decides no threshold or
\* industry outcome and appears in no row.
C10_RegistryPerRequest ==
  FilteredAllLoaded => last.df = AnswerFromOwnData

(***************************************************************************)
(* Fund filter                                                             *)
(***************************************************************************)
\* the last call was fund_filter and it returned a table with the
\* consecutive-return threshold as the only filter set
ConsecutiveOnly ==
  /\ last.op = "fund_filter" /\ ~last.raised
  /\ flt(Whole(0), last.args.min_consecutive_return)
  /\ last.args.min_annual_return = Whole(0) /\ last.args.min_years_listed = Whole(0)
  /\ last.args.fund_manager = <<>> /\ last.args.fund_company = <<>>

\* the fund of row r of df_all is in the returned table
Returned(r) == \E d \in last.df : d["jijindaima"] = r.row["jijindaima"]

\* the year has a computed return and it is at least the threshold
Meets(year, threshold) == year.some /\ ~flt(year.v, threshold)

\* C11 as stated: with a consecutive-return threshold set, a fund passes
\* the consecutive-return filter if and only if every per-year return that
\* was computed for it is >= the threshold; a year with no computed return
\* never disqualifies the fund, a computed year1 below the threshold always
\* does.
C11_EveryComputedYear ==
  ConsecutiveOnly
    => \A r \in last.computed :
         Returned(r)
           <=> \A year \in {r.returns.year1, r.returns.year2, r.returns.year3} :
                 year.some => ~flt(year.v, last.args.min_consecutive_return)

\* C11 amended: with a consecutive-return threshold set, a fund passes the
\* consecutive-return filter if and only if its listing age is at least one
\* year, its year1 return is computed and >= the threshold, and so is every
\* further year within its valid years (the whole years of its listing age,
\* at most 3); a year beyond its valid years never disqualifies it, and a
\* computed year1 below the threshold always does.
C11_ValidYears ==
  ConsecutiveOnly
    => \A r \in last.computed :
         /\ Returned(r)
              <=> /\ ~flt(r.listed, Whole(1))
                  /\ Meets(r.returns.year1, last.args.min_consecutive_return)
                  /\ r.valid_years >= 2 => Meets(r.returns.year2, last.args.min_consecutive_return)
                  /\ r.valid_years >= 3 => Meets(r.returns.year3, last.args.min_consecutive_return)
         /\ (r.returns.year1.some /\ flt(r.returns.year1.v, last.args.min_consecutive_return))
              => ~Returned(r)

\* the threshold kept the fund of three steady years and dropped both the
\* fund without a second-year return and the fund a month old
C11_Witness ==
  /\ ConsecutiveOnly /\ last.args.fund_type = QUANBU
  /\ \E r \in last.computed :
       /\ r.row["jijindaima"] = Num(<<"1">>) /\ Returned(r) /\ r.valid_years = 3
  /\ \E r \in last.computed :
       /\ r.row["jijindaima"] = Num(<<"2">>) /\ ~Returned(r) /\ ~r.returns.year2.some
       /\ Meets(r.returns.year1, last.args.min_consecutive_return)
       /\ Meets(r.returns.year3, last.args.min_consecutive_return)
  /\ \E r \in last.computed :
       /\ r.row["jijindaima"] = Num(<<"4">>) /\ ~Returned(r) /\ r.valid_years = 0
       /\ Meets(r.returns.year1, last.args.min_consecutive_return)

\* the trailing return of the window, as the decomposer reads it
Trailing(r, period) == pct2float(r.row[period])

\* 1 + value / 100
Growth(value) == fadd(Whole(1), fdiv(value, Whole(100)))

\* C12 as stated: year2 = ((1 + trailing_2y/100)^2 / (1 + trailing_1y/100)
\* - 1) * 100 and year3 = ((1 + trailing_3y/100)^3 / (1 + trailing_2y/100)^2
\* - 1) * 100 for every fund that has the two windows involved (each
\* equation multiplied through by its divisor).
C12_Squared ==
  last.op = "fund_filter"
    => \A r \in last.computed :
         /\ (Trailing(r, "jin1nian").some /\ Trailing(r, "jin2nian").some)
              => /\ r.returns.year2.some
                 /\ fmul(Growth(r.returns.year2.v), Growth(Trailing(r, "jin1nian").v))
                      = fmul(Growth(Trailing(r, "jin2nian").v), Growth(Trailing(r, "jin2nian").v))
         /\ (Trailing(r, "jin2nian").some /\ Trailing(r, "jin3nian").some)
              => /\ r.returns.year3.some
                 /\ fmul(Growth(r.returns.year3.v),
                         fmul(Growth(Trailing(r, "jin2nian").v), Growth(Trailing(r, "jin2nian").v)))
                      = fmul(Growth(Trailing(r, "jin3nian").v),
                             fmul(Growth(Trailing(r, "jin3nian").v),
                                  Growth(Trailing(r, "jin3nian").v)))

\* ((1 + long/100) / (1 + short/100) - 1) * 100
Quotient(long, short) ==
  fmul(fsub(fdiv(Growth(long), Growth(short)), Whole(1)), Whole(100))

\* C12 amended: year2 = ((1 + trailing_2y/100) / (1 + trailing_1y/100) - 1)
\* * 100 for every fund that has both windows and a trailing_1y other than
\* -100, and year3 = ((1 + trailing_3y/100) / (1 + trailing_2y/100) - 1) *
\* 100 for every fund that has both windows and a trailing_2y other than
\* -100: the growth factors enter without powers.
C12_Quotient ==
  last.op = "fund_filter"
    => \A r \in last.computed :
         /\ (/\ Trailing(r, "jin1nian").some /\ Trailing(r, "jin2nian").some
             /\ Trailing(r, "jin1nian").v # Whole(-100))
              => r.returns.year2
                   = Some(Quotient(Trailing(r, "jin2nian").v, Trailing(r, "jin1nian").v))
         /\ (/\ Trailing(r, "jin2nian").some /\ Trailing(r, "jin3nian").some
             /\ Trailing(r, "jin2nian").v # Whole(-100))
              => r.returns.year3
                   = Some(Quotient(Trailing(r, "jin3nian").v, Trailing(r, "jin2nian").v))

\* a fund with 10%, 21% and 33.1% over one, two and three years was
\* decomposed into 10% for its second and 10% for its third year
C12_Witness ==
  /\ last.op = "fund_filter"
  /\ \E r \in last.computed :
       /\ Trailing(r, "jin1nian") = Some(Whole(10)) /\ Trailing(r, "jin2nian") = Some(Whole(21))
       /\ Trailing(r, "jin3nian") = Some(Frac(331, 10))
       /\ r.returns.year2 = Some(Whole(10)) /\ r.returns.year3 = Some(Whole(10))

\* C13 as stated: for every fund with trailing_1y and trailing_2y present,
\* compounding the computed year1 and year2, (1 + year1/100) * (1 +
\* year2/100) - 1, reproduces the trailing 2-year return.
C13_RoundTripAll ==
  last.op = "fund_filter"
    => \A r \in last.computed :
         (Trailing(r, "jin1nian").some /\ Trailing(r, "jin2nian").some)
           => /\ r.returns.year1.some /\ r.returns.year2.some
              /\ fsub(fmul(Growth(r.returns.year1.v), Growth(r.returns.year2.v)), Whole(1))
                   = fdiv(Trailing(r, "jin2nian").v, Whole(100))

\* C13 amended: for every fund with trailing_1y and trailing_2y present and
\* a trailing_1y other than -100, compounding the computed year1 and year2,
\* (1 + year1/100) * (1 + year2/100) - 1, reproduces the trailing 2-year
\* return (in exact arithmetic; the floats of the code add their rounding).
C13_RoundTrip ==
  last.op = "fund_filter"
    => \A r \in last.computed :
         (/\ Trailing(r, "jin1nian").some /\ Trailing(r, "jin2nian").some
          /\ Trailing(r, "jin1nian").v # Whole(-100))
           => /\ r.returns.year1.some /\ r.returns.year2.some
              /\ fsub(fmul(Growth(r.returns.year1.v), Growth(r.returns.year2.v)), Whole(1))
                   = fdiv(Trailing(r, "jin2nian").v, Whole(100))

\* a fund with 3% over one year and 8% over two was decomposed, its six
\* months standing at 2%
C13_Witness ==
  /\ last.op = "fund_filter"
  /\ \E r \in last.computed :
       /\ Trailing(r, "jin1nian") = Some(Whole(3)) /\ Trailing(r, "jin2nian") = Some(Whole(8))
       /\ Trailing(r, "jin6yue") = Some(Whole(2))
       /\ r.returns.year1 = Some(Whole(3)) /\ r.returns.year2 = Some(Frac(500, 103))

\* C14 as stated: year2 is produced exactly when both trailing_1y and
\* trailing_2y are present, year3 exactly when both trailing_2y and
\* trailing_3y are present, and year1 equals trailing_1y whenever
\* trailing_1y is present.
C14_ExactlyWhenPresent ==
  last.op = "fund_filter"
    => \A r \in last.computed :
         /\ r.returns.year2.some
              <=> (Trailing(r, "jin1nian").some /\ Trailing(r, "jin2nian").some)
         /\ r.returns.year3.some
              <=> (Trailing(r, "jin2nian").some /\ Trailing(r, "jin3nian").some)
         /\ Trailing(r, "jin1nian").some => r.returns.year1 = Trailing(r, "jin1nian")

\* C14 amended: year2 is produced exactly when both trailing_1y and
\* trailing_2y are present and trailing_1y is not -100, year3 exactly when
\* both trailing_2y and trailing_3y are present and trailing_2y is not -100,
\* and year1 equals trailing_1y whenever trailing_1y is present.
C14_WhenPresentAndDivisible ==
  last.op = "fund_filter"
    => \A r \in last.computed :
         /\ r.returns.year2.some
              <=> (/\ Trailing(r, "jin1nian").some /\ Trailing(r, "jin2nian").some
                   /\ Trailing(r, "jin1nian").v # Whole(-100))
         /\ r.returns.year3.some
              <=> (/\ Trailing(r, "jin2nian").some /\ Trailing(r, "jin3nian").some
                   /\ Trailing(r, "jin2nian").v # Whole(-100))
         /\ Trailing(r, "jin1nian").some => r.returns.year1 = Trailing(r, "jin1nian")

\* a fund without the 1-year window got a third year and no second, and a
\* fund with all three windows got all three years
C14_Witness ==
  /\ last.op = "fund_filter"
  /\ \E r \in last.computed :
       /\ ~Trailing(r, "jin1nian").some /\ Trailing(r, "jin2nian").some
       /\ Trailing(r, "jin3nian").some
       /\ ~r.returns.year2.some /\ r.returns.year3.some
  /\ \E r \in last.computed :
       /\ Trailing(r, "jin1nian").some /\ r.returns.year1 = Trailing(r, "jin1nian")
       /\ r.returns.year2.some /\ r.returns.year3.some

(***************************************************************************)
(* Code normalization                                                      *)
(***************************************************************************)
Normalized == last.op \in {"clean_code", "extract_stock_codes"}

\* C15: for every raw identifier of the supported shapes (prefixed code
\* with name, code with name, bare code, comma form) the normalizer returns
\* exactly 6 digits, the digits of the code left-padded with zeros, and the
\* dataset gets that code; for a raw value with no digit in it the
\* normalizer returns the skip value and no code is added to the dataset.
C15_SixDigits ==
  Normalized
    => /\ last.digits # <<>>
            => /\ Len(last.code) = 6 /\ \A i \in 1..6 : IsDigit(last.code[i])
               /\ SubSeq(last.code, 7 - Len(last.digits), 6) = last.digits
               /\ \A i \in 1..(6 - Len(last.digits)) : last.code[i] = "0"
               /\ last.codes = {last.code}
       /\ (\A i \in DOMAIN str(last.raw) : ~IsDigit(str(last.raw)[i]))
            => last.code = <<>> /\ last.codes = {}

\* a prefixed code of four digits followed by a name was padded to six
C15_Witness ==
  /\ last.op = "clean_code"
  /\ last.raw = Str(<<"S", "H", "0", "5", "1", "9", ".", "N", "1">>)
  /\ last.code = <<"0", "0", "0", "5", "1", "9">>

(***************************************************************************)
(* Errors                                                                  *)
(***************************************************************************)
\* C16: for any state of the data files (missing directory or file, empty
\* file, unresolvable column, malformed row) a public entry point returns a
\* table, possibly empty, and never raises an exception to the caller;
\* stated of fund_filter.
C16_NeverRaises == last.op = "fund_filter" => ~last.raised

\* the last call was one of the two stock_filter functions, for a request
\* that names a category the catalogue does not define
UndefinedRequested ==
  /\ FilterCalled
  /\ \E i \in DOMAIN last.req.selected_types :
       last.req.selected_types[i] \notin DOMAIN STOCK_DATA_TYPES

DefinedPart(req) ==
  [req EXCEPT !.selected_types = SelectSeq(@, LAMBDA t : t \in DOMAIN stock_data_types)]

C18_RecordsWithinCodes ==
  \A k \in DOMAIN data_manager.stock_data_instances :
    /\ DOMAIN data_manager.stock_data_instances[k].stock_info
         \subseteq data_manager.stock_data_instances[k].stock_codes
    /\ \A metric \in DOMAIN data_manager.stock_data_instances[k].extra_data :
         DOMAIN data_manager.stock_data_instances[k].extra_data[metric]
           \subseteq data_manager.stock_data_instances[k].stock_codes

\* a load parsed a source file into a dataset with records and with values
\* in a metric
C18_Witness ==
  /\ LoadCalled /\ last.ret /\ Did("parse")
  /\ data_manager.stock_data_instances[LoadedKey].stock_info # EmptyDict
  /\ \E metric \in DOMAIN data_manager.stock_data_instances[LoadedKey].extra_data :
       data_manager.stock_data_instances[LoadedKey].extra_data[metric] # EmptyDict

(***************************************************************************)
(* Available dates                                                         *)
(***************************************************************************)
\* the directories the last listing accepts as dates: under data/stock
\* the names <digits>.<digits>, under data/fund the names YYYY.MM
AcceptedDates ==
  IF last.op = "get_available_dates"
    THEN {item \in DOMAIN data_stock :
            /\ data_stock[item].is_dir
            /\ \E i \in 2..(Len(item) - 1) :
                 /\ item[i] = "."
                 /\ \A j \in DOMAIN item \ {i} : IsDigit(item[j])}
  ELSE {item \in DOMAIN data_fund :
          /\ data_fund[item].is_dir /\ Len(item) = 7 /\ item[5] = "."
          /\ \A j \in DOMAIN item \ {5} : IsDigit(item[j])}

\* the month a date token names, counted from year 0
MonthOf(item) == 12 * DecVal(split1(item, ".")[1]) + DecVal(split1(item, ".")[2])

\* C19: the available-dates listing returns every accepted date directory
\* exactly once, ordered from the most recent date to the oldest.
C19_MostRecentFirst ==
  last.op \in {"get_available_dates", "get_available_fund_dates"}
    => /\ Range(last.dates) = AcceptedDates
       /\ Len(last.dates) = Cardinality(AcceptedDates)
       /\ \A i, j \in DOMAIN last.dates : i < j => MonthOf(last.dates[i]) >= MonthOf(last.dates[j])

(***************************************************************************)
(* Average ROE of the consecutive-ROE category                             *)
(***************************************************************************)
\* the source file of ROE连续超15% for the sub-variant of the last request
ROEFilePath ==
  Loaded[world][SELECTED_DATE][<<"ROElianxuchao15",
                                 Get(last.req.sub_types, "ROElianxuchao15", NoSub)>>].file_path
ROEFile == Worlds[world][ROEFilePath]

\* the last call filtered by ROE连续超15%, read its file (the manager may
\* answer from a cache file instead), and the file holds none of the columns
\* the average ROE is read from
AverageROEAbsent ==
  /\ FilterCalled
  /\ last.op = "stock_filter_new"
       => \E i \in DOMAIN last.events :
            last.events[i].e = "parse" /\ last.events[i].key[1] = "ROElianxuchao15"
  /\ "ROElianxuchao15" \in Range(last.req.selected_types)
  /\ <<"ROElianxuchao15", Get(last.req.sub_types, "ROElianxuchao15", NoSub)>>
       \in DOMAIN Loaded[world][SELECTED_DATE]
  /\ ROEFilePath \in DOMAIN Worlds[world]
  /\ first_present(<<"ROE", "roe", "pingjunROE", "pingjunroe", "ROE(%)", "roe(%)",
                     "pingjunROE(%)", "pingjunroe(%)">>, ROEFile) = NoColumn
  /\ "dangqianROE" \in Range(ROEFile.columns)

\* the text of a value of the returned table (stock_filter.py returns the
\* cells it read, the manager their str())
TextOf(value) == IF last.op = "stock_filter" THEN strip(str(value)) ELSE value

\* the rows of the file that carry the code and a current ROE
CurrentROERows(code) ==
  {i \in DOMAIN ROEFile.rows :
     /\ clean_code(ROEFile.rows[i][find_code_column(ROEFile)]) = code
     /\ notna(ROEFile.rows[i]["dangqianROE"])}

\* C20: for ROE连续超15%, when the file holds no average-ROE column, the
\* average ROE of each code is the current ROE the same file gives for that
\* code, and it is absent for the codes the file gives no current ROE.
C20_AverageFromCurrent ==
  AverageROEAbsent
    => \A row \in last.df :
         IF CurrentROERows(TextOf(row["gupiaodaima"])) # {}
           THEN \E i \in CurrentROERows(TextOf(row["gupiaodaima"])) :
                  TextOf(row["pingjunROE"]) = strip(str(ROEFile.rows[i]["dangqianROE"]))
         ELSE TextOf(row["pingjunROE"]) = <<>>

(***************************************************************************)
(* Northbound holding of the consecutive-ROE category                      *)
(***************************************************************************)
\* the last call filtered by ROE连续超15% and the file of the sub-variant
\* holds no 北上持股 column
NorthboundColumnAbsent ==
  /\ FilterCalled
  /\ "ROElianxuchao15" \in Range(last.req.selected_types)
  /\ <<"ROElianxuchao15", Get(last.req.sub_types, "ROElianxuchao15", NoSub)>>
       \in DOMAIN Loaded[world][SELECTED_DATE]
  /\ ROEFilePath \in DOMAIN Worlds[world]
  /\ "beishangchigu" \notin Range(ROEFile.columns)

\* C21: for ROE连续超15%, when the 北上持股 column is absent from the file,
\* every code gets the negative sentinel 否 for that metric: in both stock
\* filter implementations, and whether or not 北上资金持股 was requested too,
\* every returned row shows 否, never an empty or omitted field.
C21_NegativeSentinel ==
  NorthboundColumnAbsent
    => \A row \in last.df : TextOf(row["beishangchigu"]) = <<"f", "o", "u">>

(***************************************************************************)
(* Declared metrics of a dataset                                           *)
(***************************************************************************)
\* the metrics the category of the last load declares whose declared source
\* column the file has
DeclaredPresent ==
  {display_name \in Keys(STOCK_DATA_TYPES[last.stock_type].extra_columns) :
     Lookup(STOCK_DATA_TYPES[last.stock_type].extra_columns, display_name)
       \in Range(last.df.columns)}

\* the rows of the file that carry the code and a value in the column
RowsWith(code, column) ==
  {i \in DOMAIN last.df.rows :
     /\ clean_code(last.df.rows[i][find_code_column(last.df)]) = code
     /\ notna(last.df.rows[i][column])}

\* the dataset stores under the metric, per code, the cell of the column
StoresColumn(display_name, column) ==
  /\ Has(last.stock_data.extra_data, display_name)
  /\ \A code \in last.stock_data.stock_codes :
       IF RowsWith(code, column) = {}
         THEN ~Has(last.stock_data.extra_data[display_name], code)
       ELSE /\ Has(last.stock_data.extra_data[display_name], code)
            /\ \E i \in RowsWith(code, column) :
                 last.stock_data.extra_data[display_name][code]
                   = strip(str(last.df.rows[i][column]))

\* C22: for every metric a category declares in extra_columns whose
\* declared source column is present in the file, the loaded dataset stores
\* under the metric name, for each code, the non-empty cell of that declared
\* column; no other column of the file is used in its place.
C22_DeclaredColumn ==
  (last.op = "load" /\ last.stock_data.is_loaded)
    => \A display_name \in DeclaredPresent :
         StoresColumn(display_name,
                      Lookup(STOCK_DATA_TYPES[last.stock_type].extra_columns, display_name))

(***************************************************************************)
(* Rows of the result                                                      *)
(***************************************************************************)
\* the first parseable value along the dividend chain of the registry entry
\* reaches the threshold of the last request
EntryPassesDividend(code) ==
  /\ FirstParseable(Entry(code), DividendChain).some
  /\ FirstParseable(Entry(code), DividendChain).v >= last.req.dividend_filter.v

\* the codes of the intersection that pass every filter the last request sets
Survivors ==
  {code \in Intersection :
     /\ last.req.roe_filter.some => PassesROE(code)
     /\ last.req.dividend_filter.some => EntryPassesDividend(code)
     /\ last.req.industry_filter # {} => Registered(code, "hangye") \in last.req.industry_filter}

\* every code of a code set the manager holds has an entry in the registry
CodesRegistered ==
  \A k \in DOMAIN data_manager.filtered_codes :
    data_manager.filtered_codes[k] \subseteq DOMAIN data_manager.all_stock_info

\* C23: the table filter_stocks returns has exactly one row for each code
\* that survives the intersection and all active filters and no row for any
\* other code; after any sequence of loads every code of a loaded category's
\* code set has an entry in the registry.
C23_OneRowPerSurvivor ==
  /\ CodesRegistered
  /\ FilteredAllLoaded
       => /\ CodesOf(last.df) = Survivors
          /\ Cardinality(last.df) = Cardinality(Survivors)

(***************************************************************************)
(* The two stock_filter functions side by side                             *)
(***************************************************************************)
\* the last request sets no threshold and no industry filter
Unfiltered ==
  /\ ~last.req.roe_filter.some
  /\ ~last.req.dividend_filter.some
  /\ last.req.industry_filter = {}

\* the codes stock_filter of stock_filter.py returns for the last request
\* on the same data directory and date
OriginalCodes ==
  {row["gupiaodaima"].s : row \in Answers[world][SELECTED_DATE][last.req].df}

\* C24: for the same requested categories, sub-variants and date, with no
\* thresholds and no industry filter, stock_filter of stock_filter.py and
\* stock_filter of stock_filter_new.py return the same set of stock codes.
C24_SameCodes ==
  (last.op = "stock_filter_new" /\ Unfiltered) => CodesOf(last.df) = OriginalCodes

(***************************************************************************)
(* The annual-return threshold                                             *)
(***************************************************************************)
\* fund_filter returned a table for a request with an annual-return threshold
AnnualThresholdSet ==
  /\ last.op = "fund_filter" /\ ~last.raised
  /\ flt(Whole(0), last.args.min_annual_return)

\* the per-year returns computed for the fund of row r
ComputedYears(r) ==
  {year \in {r.returns.year1, r.returns.year2, r.returns.year3} : year.some}

\* C25: when min_annual_return > 0, every fund in the result has each of its
\* computed per-year returns (year1, year2, year3) >= min_annual_return,
\* a year1 extrapolated from a 6-, 3- or 1-month window included.
C25_EveryYearReaches ==
  AnnualThresholdSet
    => \A r \in last.computed :
         Returned(r) => \A year \in ComputedYears(r) : ~flt(year.v, last.args.min_annual_return)

(***************************************************************************)
(* A manager that lives through midnight                                   *)
(***************************************************************************)
\* the call recorded in last was made on the manager the caller keeps
ManagerCalled == last.op \in {"load_stock_data", "filter_stocks"}

\* the manager held the dataset of the key before the call, and the cache
\* file of the key was last written on an earlier day.  A dataset enters the
\* manager from a parse, which writes the cache file that day, or from a
\* cache file written that day: the manager has held this one since an
\* earlier day.
HeldSinceEarlierDay(instance_key) ==
  /\ instance_key \in last.held
  /\ get_cache_file_path(data_manager.selected_date, instance_key) \in DOMAIN last.before
  /\ last.before[get_cache_file_path(data_manager.selected_date, instance_key)].mtime < today

\* the call parsed the source file of the key
Reparsed(instance_key) ==
  \E i \in DOMAIN last.events : last.events[i] = Event("parse", instance_key)

\* C26: on a manager that stays alive across a change of calendar date, a
\* load_stock_data or filter_stocks call for a key whose dataset the manager
\* has held since an earlier date parses the source file again: the dataset
\* of the earlier date, held in memory, is not used to answer it.
C26_ReparsedAfterMidnight ==
  ManagerCalled
    => \A instance_key \in Range(KeysOf(last.req)) :
         HeldSinceEarlierDay(instance_key) => Reparsed(instance_key)

(***************************************************************************)
(* The categories of a stock                                               *)
(***************************************************************************)
\* the datasets of the catalogue: every category without sub-variants and
\* every sub-variant of a category that has them
CatalogueDatasets ==
  {<<stock_type, NoSub>> :
     stock_type \in {t \in DOMAIN STOCK_DATA_TYPES : STOCK_DATA_TYPES[t].sub_types = <<>>}}
    \cup UNION {{<<stock_type, sub_type>> : sub_type \in Keys(STOCK_DATA_TYPES[stock_type].sub_types)} :
                  stock_type \in DOMAIN STOCK_DATA_TYPES}

\* search_stock was called and found a stock
StockFound == last.op = "search_stock" /\ last.ret

\* the dataset as a manager obtains it at the time of the call (from the
\* cache file of today, else from the source file) loads and contains the
\* code of the stock found
ContainsFound(dataset) ==
  LET contains(r) ==
        /\ r.ret
        /\ last.stock_info.gupiaodaima
             \in r.st.filtered_codes[instance_key_of(dataset[1], dataset[2])]
  IN  contains(load_stock_data(NewSelf(last.before), Env, dataset[1], dataset[2]))

\* the entries of the returned list that stand for the dataset: the category
\* with the sub-variant; the bare name of a category that has sub-variants is
\* read as its first sub-variant, the one a load without sub_type gets
EntriesFor(dataset) ==
  {i \in DOMAIN last.categories :
     \/ last.categories[i] = dataset
     \/ /\ STOCK_DATA_TYPES[dataset[1]].sub_types # <<>>
        /\ dataset[2] = STOCK_DATA_TYPES[dataset[1]].sub_types[1][1]
        /\ last.categories[i] = <<dataset[1], NoSub>>}

\* C27: for a stock that search_stock finds, the returned categories list
\* has one entry for every defined category, and for every sub-variant of a
\* category that has sub-variants, whose dataset loads and contains the
\* stock's code, and no entry for a dataset that does not contain the code.
C27_EveryDatasetListed ==
  StockFound
    => \A dataset \in CatalogueDatasets :
         Cardinality(EntriesFor(dataset)) = IF ContainsFound(dataset) THEN 1 ELSE 0

(***************************************************************************)
(* The order of the requested categories                                   *)
(***************************************************************************)
\* the orderings of the list of categories of the last request
Orderings ==
  {[i \in DOMAIN last.req.selected_types |-> last.req.selected_types[p[i]]] :
     p \in Permutations(DOMAIN last.req.selected_types)}

\* the codes a fresh manager returns for the categories in the given order,
\* with the cache files the last call found
CodesInOrder(selected_types) ==
  CodesOf(stock_filter_new(last.before,
                           [world |-> world, today |-> today, selected_date |-> SELECTED_DATE],
                           Request(selected_types, last.req.sub_types, {}, None, None)).df)

\* C28: for any two orderings of the same list of requested categories, all
\* of which load, with no thresholds and no industry filter, filter_stocks
\* on a fresh manager returns the same set of codes.
C28_OrderIndependent ==
  (last.op = "stock_filter_new" /\ Unfiltered /\ RequestedAll)
    => \A selected_types \in Orderings : CodesInOrder(selected_types) = CodesOf(last.df)

(***************************************************************************)
(* A cache hit against a parse                                             *)
(***************************************************************************)
\* the manager of this state after load_stock_data of the key the next state
\* records, had the cache file of the key not been there: the source file
\* is parsed
ParsedInstead ==
  Manager(load_stock_data([Self EXCEPT !.cache = Del(@, CacheFile')], Env,
                          LoadedType', LoadedSubType').st,
          data_manager.selected_date)

\* the step is a load_stock_data call answered from a readable cache file
\* of today that holds what the source file parses to
HitOnUnchangedSource ==
  /\ LoadedWithArtifact'
  /\ Did("hit")'
  /\ ArtifactBefore' = [mtime |-> today, corrupt |-> FALSE, data |-> FreshParse']

\* the four parts of the manager the two ways of loading are compared on
SameState(m1, m2) ==
  /\ m1.stock_data_instances = m2.stock_data_instances
  /\ m1.filtered_codes = m2.filtered_codes
  /\ m1.all_stock_info = m2.all_stock_info
  /\ m1.loaded_types = m2.loaded_types

\* the manager of this state does not hold the key, whatever else it holds,
\* and the cache file of the key is a readable one of today that holds what
\* the source file parses to
ValidArtifact(stock_type, sub_type) ==
  LET cache_file == get_cache_file_path(data_manager.selected_date,
                                        instance_key_of(stock_type, sub_type))
  IN  /\ ~Has(data_manager.stock_data_instances, instance_key_of(stock_type, sub_type))
      /\ cache_file \in DOMAIN cache
      /\ cache[cache_file]
           = [mtime |-> today, corrupt |-> FALSE,
              data |-> Loaded[world][data_manager.selected_date][<<stock_type, sub_type>>]]

\* load_stock_data of the key, called in this state, leaves the manager as
\* it would without the cache file
HitAsParse(stock_type, sub_type) ==
  SameState(load_stock_data(Self, Env, stock_type, sub_type).st,
            load_stock_data([Self EXCEPT !.cache =
                               Del(@, get_cache_file_path(data_manager.selected_date,
                                                          instance_key_of(stock_type, sub_type)))],
                            Env, stock_type, sub_type).st)

\* C29: loading a key from a valid same-day cache artifact leaves the
\* manager in the same state as parsing the unchanged source file would:
\* the same dataset under the same instance key, the same filtered_codes
\* entry, the same registry contents and the same set of loaded types.
\* This holds of every such call that is made, and of the call for every key
\* with such an artifact in every state the manager gets into.
C29_HitEqualsParse ==
  [][/\ HitOnUnchangedSource => SameState(data_manager', ParsedInstead)
     /\ \A a \in LoadArgs :
          (a[1] \in DOMAIN STOCK_DATA_TYPES /\ ValidArtifact(a[1], a[2]))
            => HitAsParse(a[1], a[2])]_vars

\* a new manager loaded a key from the cache file of today, written from
\* the source file as it is, and the registry took its entries
C29_Witness ==
  /\ LoadedWithArtifact /\ Did("hit") /\ last.ret
  /\ ArtifactBefore = [mtime |-> today, corrupt |-> FALSE, data |-> FreshParse]
  /\ data_manager.filtered_codes[LoadedKey] = FreshParse.stock_codes
  /\ FreshParse.stock_codes # {}
  /\ FreshParse.stock_codes \subseteq DOMAIN data_manager.all_stock_info
  /\ LoadedType \in data_manager.loaded_types

(***************************************************************************)
(* A cache miss                                                            *)
(***************************************************************************)
\* load_stock_data of the key, called in this state, would go to the cache
CacheConsulted(instance_key) ==
  ~(/\ Has(data_manager.stock_data_instances, instance_key)
    /\ data_manager.stock_data_instances[instance_key].is_loaded)

\* _load_from_cache of the key, called in this state, reports a miss and
\* has changed the manager
MissChangesState(instance_key) ==
  LET changed(r) == ~r.ret /\ ~SameState(r.st, data_manager)
  IN  changed(load_from_cache(Self, Env, instance_key))

\* C30: whenever _load_from_cache reports a miss (the artifact absent,
\* stale, or failing while it is read or applied) it leaves
\* stock_data_instances, filtered_codes, all_stock_info and the loaded types
\* as they were before the call; and when load_stock_data, called on a
\* manager that did not hold the key, returns False (the miss was followed
\* by a parse that failed), the manager holds no dataset for the key.
C30_MissLeavesState ==
  /\ \A a \in LoadArgs :
       CacheConsulted(instance_key_of(a[1], a[2]))
         => ~MissChangesState(instance_key_of(a[1], a[2]))
  /\ (LoadCalled /\ LoadedKey \notin last.held /\ ~last.ret)
       => ~Has(data_manager.stock_data_instances, LoadedKey)
====
